---------------------------- MODULE Spec2Model ----------------------------
(***************************************************************************)
(* A model of the Sabi audio fingerprinting engine: the fingerprint        *)
(* generator and the voter (src/src/fingerprint.rs), the index adapter     *)
(* (src/src/db/connector.rs over the schema of src/src/schema.rs) and the  *)
(* ingest and match drivers (src/src/main.rs).                             *)
(*                                                                         *)
(* Units.  The drivers feed the pipeline audio normalised to 11000 Hz and  *)
(* the default engine (CHUNK_SIZE 2048, OVERLAP_SIZE 1024).  A time is an  *)
(* integer number of samples (seconds * SAMPLE_RATE), a frequency an       *)
(* integer number of 1/256 Hz (bin * 11000/2048 Hz = bin * 1375 / 256 Hz), *)
(* so that every truncation and rounding of the code is computed exactly;  *)
(* the rounding error of the f32 arithmetic itself is not modelled.        *)
(* A u32/u64 value is the set of the positions of its one bits, so that    *)
(* shifts and ors keep their width.                                        *)
(***************************************************************************)
EXTENDS Integers, Sequences, FiniteSets, TLC

VARIABLES
    fft_buffer,          \* the Vec<FFTDistribution> of the running pipeline
    fingerprints,        \* the Vec<FingerprintInfo> generated or passed in
    emitted,             \* per pushed fingerprint, the loop locals it was built from
    songs,               \* table songs: rows [id, title]
    fingerprint,         \* table fingerprint: rows [hash, absolute_time_offset, song_id]
    next_id,             \* the serial of songs.id
    report,              \* what the last operation printed / returned
    db_matches_by_hash,  \* the lookup result handed to the voter
    results,             \* the Vec<VoteResult> of the last vote
    engine,              \* the CooleyTukeyFFT: its CHUNK_SIZE and OVERLAP_SIZE
    buf_len,             \* the length of the sample buffer being framed
    position,            \* the loop variable of generate_freq_time_distribution
    chunks,              \* per pushed frame, the sample range of its chunk
    magnitudes,          \* the magnitude spectrum handed to find_peaks
    final_peaks,         \* the Vec<PeakInfo> find_peaks returned
    complex_buff,        \* the Vec<Complex> cooley_tukey_fft works on
    products,            \* per multiplication of the butterfly: operands and result
    pc,                  \* the position of the running driver of the command line
    files,               \* the temporary WAV files present in the working directory
    exit_code,           \* the exit code of the process, once pc = "exited"
    handed,              \* what the driver handed the STFT engine
    stream,              \* the cpal input stream of record_audio
    mutex,               \* the holder of the Mutex around the capture buffer
    recorded_samples,    \* the Vec<f32> behind the Mutex
    callback,            \* the capture callback: its position and its data slice
    delivered,           \* every slice the device handed the callback, in order
    returned             \* the samples record_audio returned

fftvars == <<engine, buf_len, position, chunks, magnitudes, final_peaks>>

\* the state of the in-place transform, of the command-line drivers and of
\* a recording
envvars == <<complex_buff, products, pc, files, exit_code, handed,
             stream, mutex, recorded_samples, callback, delivered, returned>>

vars == <<fft_buffer, fingerprints, emitted, songs, fingerprint, next_id,
          report, db_matches_by_hash, results, fftvars, envvars>>

---------------------------------------------------------------------------
(* Bounds of the model. *)

\* frames of a decoded buffer
MaxFrames == 3
\* rows of table songs
MaxSongs == 2
\* fingerprints passed to one direct call of write_fingerprints
MaxFps == 3
\* query fingerprints passed to one direct call of vote_best_matches
MaxQuery == 2
\* db matches per hash passed to one direct call of vote_best_matches
MaxMatches == 2
\* strong and weak local maxima put into one band of a spectrum
MaxStrong == 7
MaxWeak == 8

---------------------------------------------------------------------------
(* Program constants. *)

SAMPLE_RATE == 11000
CHUNK_SIZE == 2048
OVERLAP_SIZE == 1024
MAX_TARGET_ZONE == 5
MIN_TARGET_ZONE_DIST == 1
\* 1/256 Hz units in one FFT bin: 256 * SAMPLE_RATE / CHUNK_SIZE
FreqPerBin == (256 * SAMPLE_RATE) \div CHUNK_SIZE

Min(a, b) == IF a <= b THEN a ELSE b

RECURSIVE Concat(_)
\* Vec::extend / push in iteration order: the concatenation of a sequence of sequences
Concat(ss) == IF ss = <<>> THEN <<>> ELSE Head(ss) \o Concat(Tail(ss))

---------------------------------------------------------------------------
(* Fixed-width unsigned integers as sets of bit positions. *)

\* the one bits of a non-negative i32 (bit 31 is the sign)
Bits(n) == {i \in 0..30 : (n \div 2^i) % 2 = 1}

\* (x as u32) << k : bits shifted past bit 31 are dropped
Shl32(x, k) == {i + k : i \in x} \cap (0..31)

\* (x as u64) << k
Shl64(x, k) == {i + k : i \in x} \cap (0..63)

---------------------------------------------------------------------------
(* generate_audio_fingerprint, src/src/fingerprint.rs *)

\* anchor_freq as i32: truncation of a frequency in 1/256 Hz to whole Hz
FreqInt(freq) == freq \div 256

\* ((time_delta * 1000.0) as u32).min(16383): a saturating cast, negative -> 0
DeltaMs(time_delta) ==
    IF time_delta <= 0 THEN 0
    ELSE Min((time_delta * 1000) \div SAMPLE_RATE, 16383)

\* (anchor_freq_int as u32) << 23 | (target_freq_int as u32) << 14 | delta_ms, as u64
HashedValue(anchor_freq_int, target_freq_int, delta_ms) ==
    Shl32(Bits(anchor_freq_int), 23) \cup Shl32(Bits(target_freq_int), 14)
        \cup Bits(delta_ms)

\* Emission with the hash built from the target frame's absolute time instead
\* of the time delta (a variant used to test the determinism property)
EmissionAbsTime(buf, idx, anchor_peak, slice, target_peak) ==
    LET time == buf[idx].time
        anchor_freq_int == FreqInt(anchor_peak.freq)
        target_freq_int == FreqInt(target_peak.freq)
    IN  [anchor_freq_int |-> anchor_freq_int,
         target_freq_int |-> target_freq_int,
         delta_ms |-> DeltaMs(slice.time - time),
         idx |-> idx,
         info |-> [hash |-> HashedValue(anchor_freq_int, target_freq_int,
                                        DeltaMs(slice.time)),
                   abs_anchor_tm_offset |-> time,
                   song_id |-> 1]]

\* the body of the innermost loop: the locals and the FingerprintInfo pushed
\* for anchor peak anchor_peak of frame idx and target peak target_peak of slice
Emission(buf, idx, anchor_peak, slice, target_peak) ==
    LET time == buf[idx].time
        time_delta == slice.time - time
        anchor_freq_int == FreqInt(anchor_peak.freq)
        target_freq_int == FreqInt(target_peak.freq)
        delta_ms == DeltaMs(time_delta)
    IN  [anchor_freq_int |-> anchor_freq_int,
         target_freq_int |-> target_freq_int,
         delta_ms |-> delta_ms,
         idx |-> idx,
         info |-> [hash |-> HashedValue(anchor_freq_int, target_freq_int, delta_ms),
                   abs_anchor_tm_offset |-> time,
                   song_id |-> 1]]

\* a target zone that starts at the anchor frame itself (a variant used to
\* test the claim about the zone)
TargetZoneFromAnchor(buf, idx) ==
    LET end_idx == Min(idx - 1 + MAX_TARGET_ZONE, Len(buf))
    IN  [k \in 1..(end_idx - idx + 1) |-> buf[idx + k - 1]]

\* the frames of the target zone of frame idx (1-based), in order
TargetZone(buf, idx) ==
    LET start_idx == idx + MIN_TARGET_ZONE_DIST
        end_idx == Min(idx - 1 + MAX_TARGET_ZONE, Len(buf))
    IN  IF start_idx > end_idx THEN <<>>
        ELSE [k \in 1..(end_idx - start_idx + 1) |-> buf[start_idx + k - 1]]

\* the pushes with the frames walked from the last to the first (a variant
\* used to test the output order)
EmissionsReversed(buf) ==
    Concat([i \in 1..Len(buf) |->
        LET idx == Len(buf) + 1 - i IN
        Concat([a \in 1..Len(buf[idx].peaks) |->
            LET zone == TargetZone(buf, idx) IN
            Concat([z \in 1..Len(zone) |->
                [t \in 1..Len(zone[z].peaks) |->
                    Emission(buf, idx, buf[idx].peaks[a], zone[z],
                             zone[z].peaks[t])]])])])

\* every push of generate_audio_fingerprint, in push order
Emissions(buf) ==
    Concat([idx \in 1..Len(buf) |->
        Concat([a \in 1..Len(buf[idx].peaks) |->
            LET zone == TargetZone(buf, idx) IN
            Concat([z \in 1..Len(zone) |->
                [t \in 1..Len(zone[z].peaks) |->
                    Emission(buf, idx, buf[idx].peaks[a], zone[z],
                             zone[z].peaks[t])]])])])

generate_audio_fingerprint(buf) ==
    LET e == Emissions(buf) IN [k \in 1..Len(e) |-> e[k].info]

---------------------------------------------------------------------------
(* The index adapter, src/src/db/connector.rs, over src/src/schema.rs *)

\* rows sent to the index in one INSERT statement (15_000 in the source,
\* scaled down so that a write of a few rows spans several batches)
BATCH_SIZE == 2

\* (abs_anchor_tm_offset * 100.0).round(): the 10 ms bucket of a time in
\* samples, halves rounded away from zero (times are never negative)
TimeBucket(t) == (200 * t + SAMPLE_RATE) \div (2 * SAMPLE_RATE)

RECURSIVE DedupFrom(_, _, _)
\* the loop over fingerprint_info: a Fingerprint row for each first
\* occurrence of its (hash, bucket) key
DedupFrom(fingerprint_info, seen, song_id) ==
    IF fingerprint_info = <<>> THEN <<>>
    ELSE LET f_info == Head(fingerprint_info)
             key == <<f_info.hash, TimeBucket(f_info.abs_anchor_tm_offset)>>
         IN  IF key \in seen
             THEN DedupFrom(Tail(fingerprint_info), seen, song_id)
             ELSE <<[hash |-> f_info.hash,
                     absolute_time_offset |-> f_info.abs_anchor_tm_offset,
                     song_id |-> song_id]>>
                  \o DedupFrom(Tail(fingerprint_info), seen \cup {key}, song_id)

Dedup(fingerprint_info, song_id) == DedupFrom(fingerprint_info, {}, song_id)

\* the primary key of table fingerprint
PKey(row) == <<row.song_id, row.absolute_time_offset>>

\* ON CONFLICT DO NOTHING replaced by an overwrite of the conflicting row
\* (a variant used to test the claims about the conflict policy)
InsertRowUpsert(table, row) ==
    [table |-> {r \in table : PKey(r) # PKey(row)} \cup {row},
     inserted |-> IF \E r \in table : PKey(r) = PKey(row) THEN 0 ELSE 1]

\* one row of INSERT ... ON CONFLICT ON CONSTRAINT fingerprint_pkey DO NOTHING
InsertRow(table, row) ==
    IF \E r \in table : PKey(r) = PKey(row)
    THEN [table |-> table, inserted |-> 0]
    ELSE [table |-> table \cup {row}, inserted |-> 1]

RECURSIVE InsertBatch(_, _)
\* one INSERT statement: its rows in order, each against the table and the
\* rows the statement has already inserted; inserted is the affected-row count
InsertBatch(table, batch) ==
    IF batch = <<>> THEN [table |-> table, inserted |-> 0]
    ELSE LET one == InsertRow(table, Head(batch))
             rest == InsertBatch(one.table, Tail(batch))
         IN  [table |-> rest.table, inserted |-> one.inserted + rest.inserted]

RECURSIVE Chunks(_, _)
\* fingerprints.chunks(BATCH_SIZE)
Chunks(rows, n) ==
    IF rows = <<>> THEN <<>>
    ELSE IF Len(rows) <= n THEN <<rows>>
    ELSE <<SubSeq(rows, 1, n)>> \o Chunks(SubSeq(rows, n + 1, Len(rows)), n)

RECURSIVE RunBatches(_, _, _, _, _)
\* the closure of the transaction: batch k fails when fail_at = k (0: none
\* fails); the table is the one the transaction sees
RunBatches(table, batches, k, fail_at, total_inserted) ==
    IF k > Len(batches)
    THEN [table |-> table, status |-> "ok", count |-> total_inserted,
          executed |-> Len(batches)]
    ELSE IF fail_at = k
    THEN [table |-> table, status |-> "err", count |-> total_inserted,
          executed |-> k - 1]
    ELSE LET b == InsertBatch(table, batches[k])
         IN  RunBatches(b.table, batches, k + 1, fail_at,
                        total_inserted + b.inserted)

\* a transaction that keeps what its executed batches wrote when a later
\* batch fails (a variant used to test the all-or-nothing claim)
TransactionNoRollback(table, rows, fail_at) ==
    RunBatches(table, Chunks(rows, BATCH_SIZE), 1, fail_at, 0)

\* connector.transaction(|conn| ...): commit on Ok, rollback on Err
Transaction(table, rows, fail_at) ==
    LET r == RunBatches(table, Chunks(rows, BATCH_SIZE), 1, fail_at, 0)
    IN  IF r.status = "ok" THEN r ELSE [r EXCEPT !.table = table]

\* DB::write_fingerprints: the table after the call, what the call printed
\* and its local Vec<Fingerprint> of deduplicated rows
write_fingerprints(table, song_id, fingerprint_info, fail_at) ==
    LET rows == Dedup(fingerprint_info, song_id)
    IN  IF rows = <<>>
        THEN [table |-> table, status |-> "empty", count |-> 0, executed |-> 0,
              rows |-> rows, fail_at |-> 0]
        ELSE LET r == Transaction(table, rows, fail_at)
             IN  [table |-> r.table, status |-> r.status, count |-> r.count,
                  executed |-> r.executed, rows |-> rows, fail_at |-> fail_at]

\* the batches a call would send
NumBatches(fingerprint_info, song_id) ==
    Len(Chunks(Dedup(fingerprint_info, song_id), BATCH_SIZE))

\* DB::write_song: a new row of songs under the next serial id
write_song(table, id, song_name) == table \cup {[id |-> id, title |-> song_name]}

RowsOf(table, song_id) == {r \in table : r.song_id = song_id}

---------------------------------------------------------------------------
(* DB::fetch_matches_grouped_by_hash, src/src/db/connector.rs *)

\* the injective sequences that enumerate a finite set: the orders in which
\* an unordered source (a SELECT without ORDER BY, a HashMap) can be read
Orders(S) ==
    {f \in [1..Cardinality(S) -> S] : \A i, j \in DOMAIN f : f[i] = f[j] => i = j}

\* Temp_hashes without its primary key: every inserted hash is a row (a
\* variant used to test the lookup)
TempHashesNoKey(hashes_in) == hashes_in

RECURSIVE temp_hashes(_)
\* the rows of Temp_hashes (hash BIGINT PRIMARY KEY) after the batches of
\* INSERT ... ON CONFLICT DO NOTHING: a hash already in the table is skipped
temp_hashes(hashes_in) ==
    IF hashes_in = <<>> THEN <<>>
    ELSE LET n == Len(hashes_in)
             t == temp_hashes(SubSeq(hashes_in, 1, n - 1))
         IN  IF \E k \in DOMAIN t : t[k] = hashes_in[n] THEN t
             ELSE Append(t, hashes_in[n])

\* fingerprint AS f INNER JOIN temp_hashes AS t ON f.hash = t.hash: one
\* record for each pair of a row of fingerprint and a row of Temp_hashes
JoinRecords(table, t) ==
    UNION {{<<f, k>> : k \in {x \in DOMAIN t : t[x] = f.hash}} : f \in table}

\* the Vecs the loop over the records can build under hash h: the
\* (song_id, db_time) of each record of h, in the order the join returned them
VecsOf(records, h) ==
    {[i \in DOMAIN o |-> <<o[i][1].song_id, o[i][1].absolute_time_offset>>] :
        o \in Orders({rec \in records : rec[1].hash = h})}

\* every map the lookup can return for the Vec hashes_in: empty for an empty
\* request, else a key for each hash that has records.  The casts between
\* u64 and i64 keep the bits, which is what a hash is here.
fetch_matches_grouped_by_hash(table, hashes_in) ==
    IF hashes_in = <<>> THEN {<<>>}
    ELSE LET records == JoinRecords(table, temp_hashes(hashes_in))
             found == {rec[1].hash : rec \in records}
         IN  {m \in [found -> UNION {VecsOf(records, h) : h \in found}] :
                 \A h \in found : m[h] \in VecsOf(records, h)}

---------------------------------------------------------------------------
(* vote_best_matches, src/src/fingerprint.rs *)

\* 100 ms, the tolerance of the pairwise comparison, in samples
TOLERANCE == SAMPLE_RATE \div 10

Abs(x) == IF x < 0 THEN -x ELSE x

\* the first loop without the lookup by hash: every query fingerprint is
\* paired with the matches of every key (a variant used to test the claim
\* about songs without collisions)
CollectMatchesAnyHash(query_fingerprints, db_matches) ==
    LET hs == CHOOSE o \in Orders(DOMAIN db_matches) : TRUE
    IN  Concat([i \in 1..Len(query_fingerprints) |->
            Concat([n \in 1..Len(hs) |->
                [m \in 1..Len(db_matches[hs[n]]) |->
                    [song_id |-> db_matches[hs[n]][m][1],
                     sample_time |-> query_fingerprints[i].abs_anchor_tm_offset,
                     db_time |-> db_matches[hs[n]][m][2]]]])])

\* the first loop: for each query fingerprint, for each db match of its
\* hash, the (song_id, query time, db time) pushed, in push order
CollectMatches(query_fingerprints, db_matches) ==
    Concat([i \in 1..Len(query_fingerprints) |->
        LET fp == query_fingerprints[i] IN
        IF fp.hash \in DOMAIN db_matches
        THEN [m \in 1..Len(db_matches[fp.hash]) |->
                 [song_id |-> db_matches[fp.hash][m][1],
                  sample_time |-> fp.abs_anchor_tm_offset,
                  db_time |-> db_matches[fp.hash][m][2]]]
        ELSE <<>>])

RECURSIVE TotalOffset(_)
\* total_offset += db_time - sample_time
TotalOffset(times) ==
    IF times = <<>> THEN 0
    ELSE (Head(times).db_time - Head(times).sample_time) + TotalOffset(Tail(times))

\* the test of the inner loop on times[i], times[j]
Agree(ti, tj) ==
    LET sample_diff == Abs(ti.sample_time - tj.sample_time)
        db_diff == Abs(ti.db_time - tj.db_time)
    IN  Abs(sample_diff - db_diff) < TOLERANCE

RECURSIVE PairLoopSelf(_, _, _)
\* the pair loops with j starting at i instead of i + 1 (a variant used to
\* test the score property)
PairLoopSelf(times, i, j) ==
    IF i > Len(times) THEN 0
    ELSE IF j > Len(times) THEN PairLoopSelf(times, i + 1, i + 1)
    ELSE (IF Agree(times[i], times[j]) THEN 1 ELSE 0) + PairLoopSelf(times, i, j + 1)

RECURSIVE PairLoop(_, _, _)
\* for i in 0..len { for j in (i + 1)..len { if ... { count += 1 } } }
PairLoop(times, i, j) ==
    IF i > Len(times) THEN 0
    ELSE IF j > Len(times) THEN PairLoop(times, i + 1, i + 2)
    ELSE (IF Agree(times[i], times[j]) THEN 1 ELSE 0) + PairLoop(times, i, j + 1)

\* the (score, time_offset) of one song; the mean is kept to one sample
SongScore(times) ==
    IF times = <<>> THEN [score |-> 0, time_offset |-> 0]
    ELSE [score |-> PairLoop(times, 1, 2),
          time_offset |-> TotalOffset(times) \div Len(times)]

\* the result cut to top_k before it is sorted (a variant used to test the
\* ranking property)
VoteCutUnsorted(query_fingerprints, db_matches, top_k) ==
    IF query_fingerprints = <<>> THEN {<<>>}
    ELSE
    LET all == CollectMatches(query_fingerprints, db_matches)
        ids == {all[i].song_id : i \in DOMAIN all}
        Times(id) == SelectSeq(all, LAMBDA x : x.song_id = id)
        Result(id) == [song_id |-> id, score |-> SongScore(Times(id)).score,
                       time_offset |-> SongScore(Times(id)).time_offset]
    IN  {[i \in 1..Min(Len(o), top_k) |-> Result(o[i])] : o \in Orders(ids)}

\* every Vec<VoteResult> the call can return: the songs in any order the
\* HashMap can yield them, stably sorted by descending score, cut to top_k
vote_best_matches(query_fingerprints, db_matches, top_k) ==
    IF query_fingerprints = <<>> THEN {<<>>}
    ELSE
    LET all == CollectMatches(query_fingerprints, db_matches)
        ids == {all[i].song_id : i \in DOMAIN all}
        Times(id) == SelectSeq(all, LAMBDA x : x.song_id = id)
        Result(id) == [song_id |-> id, score |-> SongScore(Times(id)).score,
                       time_offset |-> SongScore(Times(id)).time_offset]
        sorted == {o \in Orders(ids) :
                      \A i, j \in DOMAIN o :
                          i < j => Result(o[i]).score >= Result(o[j]).score}
    IN  {[i \in 1..Min(Len(o), top_k) |-> Result(o[i])] : o \in sorted}

---------------------------------------------------------------------------
(* The buffers generate_freq_time_distribution can hand to the generator:  *)
(* frame k starts at sample (k-1) * hop; its peaks come band by band (mid  *)
(* before high).                                                           *)

\* bin 96 = 515.6 Hz (mid band), bin 382 = 2051.8 Hz (high band)
PeakLists == {<<>>, <<[freq |-> 96 * FreqPerBin]>>, <<[freq |-> 382 * FreqPerBin]>>,
              <<[freq |-> 96 * FreqPerBin], [freq |-> 382 * FreqPerBin]>>}

FrameAt(k, peaks) == [time |-> (k - 1) * (CHUNK_SIZE - OVERLAP_SIZE), peaks |-> peaks]

AllBuffers ==
    UNION {{[k \in 1..n |-> FrameAt(k, p[k])] : p \in [1..n -> PeakLists]} :
               n \in 0..MaxFrames}

\* buffers longer than the target zone: every frame silent or with one peak
LongBuffers ==
    UNION {{[k \in 1..n |->
                FrameAt(k, IF k \in S THEN <<[freq |-> 96 * FreqPerBin]>> ELSE <<>>)] :
            S \in SUBSET (1..n)} : n \in {MAX_TARGET_ZONE + 1, MAX_TARGET_ZONE + 2}}

NoReport == [op |-> "none"]

---------------------------------------------------------------------------
(* CooleyTukeyFFT, src/src/fft/fft.rs: construction *)

\* a test of the lowest bit only (a variant used to test the claim about
\* construction)
IsEven(n) == n % 2 = 0

\* usize::is_power_of_two: exactly one bit set
is_power_of_two(n) == Cardinality(Bits(n)) = 1

\* Default::default()
Default == [built |-> TRUE, CHUNK_SIZE |-> CHUNK_SIZE, OVERLAP_SIZE |-> CHUNK_SIZE \div 2]

\* no engine has been built
NoEngine == [built |-> FALSE, CHUNK_SIZE |-> 0, OVERLAP_SIZE |-> 0]

\* the drivers hold a default engine and no framing is under way
FftIdle ==
    /\ engine = Default
    /\ buf_len = 0
    /\ position = 0
    /\ chunks = <<>>
    /\ magnitudes = <<>>
    /\ final_peaks = <<>>

\* nothing has been handed to the STFT engine
NoHand == [entry |-> "none", rate |-> 0, sample_rate |-> 0]

\* no driver of the command line is running
RunIdle ==
    /\ pc = [at |-> "idle", song |-> 0, snippet |-> 0]
    /\ files = {}
    /\ exit_code = 0
    /\ handed = NoHand

\* no recording is under way
MicIdle ==
    /\ stream = [state |-> "none", format |-> "F32"]
    /\ mutex = "free"
    /\ recorded_samples = <<>>
    /\ callback = [at |-> "idle", data |-> <<>>, i |-> 1]
    /\ delivered = <<>>
    /\ returned = <<>>

\* no buffer is being transformed, no driver runs, nothing is recorded
EnvIdle == complex_buff = <<>> /\ products = <<>> /\ RunIdle /\ MicIdle

---------------------------------------------------------------------------
(* CooleyTukeyFFT::find_peaks, src/src/fft/fft.rs.  The argument is the    *)
(* magnitude of each of the first n/2 bins of the transform; a normalised  *)
(* magnitude is the fraction num/den, den the largest magnitude of the     *)
(* frame, so that every comparison of the code is computed exactly.        *)

\* FreqRange::Low, FreqRange::High and the limits of the bands, in Hz
LOWER_FREQ_LIMIT == 20
HIGHER_FREQ_LIMIT == 5000
MID_BAND_START == 300
HIGH_BAND_START == 2000
\* THRESHOLD_MULTIPLIER = 1.75 = THRESHOLD_NUM / THRESHOLD_DEN
THRESHOLD_NUM == 7
THRESHOLD_DEN == 4
MAX_PEAKS_PER_BAND == 5

\* i as f32 * (sample_rate as f32 / n as f32), in 1/256 Hz
BinFreq(i, n, sample_rate) == i * ((256 * sample_rate) \div n)

RECURSIVE MaxOf(_)
MaxOf(S) ==
    IF S = {} THEN 0
    ELSE LET x == CHOOSE y \in S : TRUE
             m == MaxOf(S \ {x})
         IN  IF x > m THEN x ELSE m

\* *m /= max_val, when there is a positive maximum
Normalize(mags) ==
    LET max_val == MaxOf({mags[i] : i \in DOMAIN mags})
    IN  [i \in DOMAIN mags |->
            [num |-> mags[i], den |-> IF max_val > 0 THEN max_val ELSE 1]]

\* a < b on normalised magnitudes
MagLess(a, b) == a.num * b.den < b.num * a.den

RECURSIVE Ascending(_)
\* the elements of a set of numbers in ascending order
Ascending(S) ==
    IF S = {} THEN <<>>
    ELSE LET x == CHOOSE y \in S : \A z \in S : y <= z
         IN  <<x>> \o Ascending(S \ {x})

\* lower_freq_limit < freq && freq < higher_freq_limit
in_range(freq) == 256 * LOWER_FREQ_LIMIT < freq /\ freq < 256 * HIGHER_FREQ_LIMIT

\* the loop over 1..half_n - 1: the local maxima inside the frequency
\* range, by ascending bin
raw_peaks(norm, n, sample_rate) ==
    LET half_n == n \div 2
        maxima == {i \in 1..(half_n - 2) :
                      /\ MagLess(norm[i - 1], norm[i])
                      /\ MagLess(norm[i + 1], norm[i])
                      /\ in_range(BinFreq(i, n, sample_rate))}
        order == Ascending(maxima)
    IN  [k \in 1..Len(order) |->
            [freq |-> BinFreq(order[k], n, sample_rate), magnitude |-> norm[order[k]]]]

\* a band filter without its upper limit (a variant used to test the
\* claim about the frequency bands)
InBandNoUpperLimit(freq, lo, hi) == 256 * lo <= freq

\* (lo..hi).contains(&freq)
in_band(freq, lo, hi) == 256 * lo <= freq /\ freq < 256 * hi

Band(raw, lo, hi) == SelectSeq(raw, LAMBDA p : in_band(p.freq, lo, hi))

RECURSIVE SumNum(_)
SumNum(band) == IF band = <<>> THEN 0 ELSE Head(band).magnitude.num + SumNum(Tail(band))

\* a threshold at the average itself, met by a peak that reaches it (a
\* variant used to test the claim about bands of equal peaks)
AtOrAboveAverage(p, band) == Len(band) * p.magnitude.num >= SumNum(band)

\* p.magnitude > average_magnitude * THRESHOLD_MULTIPLIER; the magnitudes of
\* a frame have one denominator
AboveThreshold(p, band) ==
    THRESHOLD_DEN * Len(band) * p.magnitude.num > THRESHOLD_NUM * SumNum(band)

RECURSIVE InsertDesc(_, _)
\* x into a sequence in descending order of magnitude, after its equals
InsertDesc(x, sorted) ==
    IF sorted = <<>> THEN <<x>>
    ELSE IF MagLess(Head(sorted).magnitude, x.magnitude) THEN <<x>> \o sorted
    ELSE <<Head(sorted)>> \o InsertDesc(x, Tail(sorted))

\* no sort: the peaks stay in the order of the band, by frequency (a variant
\* used to test the selection of the largest peaks)
SortKeepOrder(rest, sorted) == rest

RECURSIVE SortDesc(_, _)
\* sort_by(|a, b| b.magnitude.partial_cmp(&a.magnitude)): stable, descending
SortDesc(rest, sorted) ==
    IF rest = <<>> THEN sorted
    ELSE SortDesc(Tail(rest), InsertDesc(Head(rest), sorted))

\* the closure without truncate (a variant used to test the band cap)
ProcessBandNoCap(band) ==
    IF band = <<>> THEN <<>>
    ELSE SortDesc(SelectSeq(band, LAMBDA p : AboveThreshold(p, band)), <<>>)

\* the closure process_band
process_band(band) ==
    IF band = <<>> THEN <<>>
    ELSE LET strong_peaks ==
                 SortDesc(SelectSeq(band, LAMBDA p : AboveThreshold(p, band)), <<>>)
         IN  SubSeq(strong_peaks, 1, Min(Len(strong_peaks), MAX_PEAKS_PER_BAND))

\* find_peaks on a buffer of n bins: with n < 2, half_n - 1 underflows and
\* the loop indexes the empty magnitudes, a panic in every build
find_peaks(mags, n, sample_rate) ==
    IF n \div 2 = 0 THEN [status |-> "panic", peaks |-> <<>>]
    ELSE LET raw == raw_peaks(Normalize(mags), n, sample_rate)
             low_band == Band(raw, LOWER_FREQ_LIMIT, MID_BAND_START)
             mid_band == Band(raw, MID_BAND_START, HIGH_BAND_START)
             high_band == Band(raw, HIGH_BAND_START, HIGHER_FREQ_LIMIT)
         IN  [status |-> "ok",
              peaks |-> process_band(low_band) \o process_band(mid_band)
                            \o process_band(high_band)]

---------------------------------------------------------------------------
(* SpecFp: generate_audio_fingerprint applied to every bounded buffer. *)

InitFp ==
    /\ fft_buffer \in AllBuffers \cup LongBuffers
    /\ fingerprints = <<>>
    /\ emitted = <<>>
    /\ songs = {}
    /\ fingerprint = {}
    /\ next_id = 1
    /\ report = NoReport
    /\ db_matches_by_hash = <<>>
    /\ results = <<>>
    /\ FftIdle
    /\ EnvIdle

GenerateAudioFingerprint ==
    /\ report.op = "none"
    /\ fingerprints' = generate_audio_fingerprint(fft_buffer)
    /\ emitted' = Emissions(fft_buffer)
    /\ report' = [op |-> "generate", count |-> Len(Emissions(fft_buffer))]
    /\ UNCHANGED <<fftvars, envvars>>
    /\ UNCHANGED <<fft_buffer, songs, fingerprint, next_id, db_matches_by_hash, results>>

NextFp == GenerateAudioFingerprint

SpecFp == InitFp /\ [][NextFp]_vars

---------------------------------------------------------------------------
(* SpecDB: the index adapter called directly, write_song and               *)
(* write_fingerprints with bounded arguments.                              *)

\* two hashes the generator produces, at anchor times of 0 and 54 samples,
\* which fall in the same 10 ms bucket
DbInfos ==
    {[hash |-> HashedValue(515, 515, 93), abs_anchor_tm_offset |-> 0, song_id |-> 1],
     [hash |-> HashedValue(515, 2051, 186), abs_anchor_tm_offset |-> 0, song_id |-> 1],
     [hash |-> HashedValue(515, 515, 93), abs_anchor_tm_offset |-> 54, song_id |-> 1]}

\* the argument of a direct call
DbInputs == UNION {[1..n -> DbInfos] : n \in 0..MaxFps}

InitDB ==
    /\ fft_buffer = <<>>
    /\ fingerprints = <<>>
    /\ emitted = <<>>
    /\ songs = {}
    /\ fingerprint = {}
    /\ next_id = 1
    /\ report = NoReport
    /\ db_matches_by_hash = <<>>
    /\ results = <<>>
    /\ FftIdle
    /\ EnvIdle

WriteSong(song_name) ==
    /\ next_id <= MaxSongs
    /\ songs' = write_song(songs, next_id, song_name)
    /\ next_id' = next_id + 1
    /\ report' = [op |-> "write_song", song_id |-> next_id]
    /\ UNCHANGED <<fftvars, envvars>>
    /\ UNCHANGED <<fft_buffer, fingerprints, emitted, fingerprint,
                   db_matches_by_hash, results>>

WriteFingerprints(song_id, fingerprint_info, fail_at) ==
    \E r \in {write_fingerprints(fingerprint, song_id, fingerprint_info, fail_at)} :
        /\ fingerprint' = r.table
        /\ report' = [op |-> "write_fingerprints", song_id |-> song_id,
                      status |-> r.status, count |-> r.count,
                      executed |-> r.executed, rows |-> r.rows,
                      fail_at |-> r.fail_at]
        /\ UNCHANGED <<fftvars, envvars>>
        /\ UNCHANGED <<fft_buffer, fingerprints, emitted, songs, next_id,
                       db_matches_by_hash, results>>

\* write_fingerprints is called, any number of times, with the id write_song
\* returned last (the id ingest_file passes)
NextDB ==
    \/ WriteSong("A440")
    \/ \E fingerprint_info \in DbInputs :
           \E fail_at \in 0..NumBatches(fingerprint_info, next_id - 1) :
               /\ next_id > 1
               /\ WriteFingerprints(next_id - 1, fingerprint_info, fail_at)

SpecDB == InitDB /\ [][NextDB]_vars

---------------------------------------------------------------------------
(* SpecFetch: fetch_matches_grouped_by_hash called directly on the tables  *)
(* that two ingests leave behind.                                          *)

\* the tables after write_fingerprints for song 1 and for song 2
FetchTables ==
    {write_fingerprints(write_fingerprints({}, 1, a, 0).table, 2, b, 0).table :
        a \in DbInputs, b \in DbInputs}

\* the argument of a direct lookup: the two hashes that can be stored and
\* one that cannot; a hash can occur several times
FetchInputs ==
    UNION {[1..n -> {f.hash : f \in DbInfos} \cup {HashedValue(2051, 515, 93)}] :
               n \in 0..MaxQuery}

FetchMatchesGroupedByHash(hashes_in) ==
    /\ db_matches_by_hash' \in fetch_matches_grouped_by_hash(fingerprint, hashes_in)
    /\ report' = [op |-> "fetch_matches_grouped_by_hash", hashes_in |-> hashes_in]
    /\ UNCHANGED <<fftvars, envvars>>
    /\ UNCHANGED <<fft_buffer, fingerprints, emitted, songs, fingerprint, next_id,
                   results>>

InitFetch ==
    /\ fft_buffer = <<>>
    /\ fingerprints = <<>>
    /\ emitted = <<>>
    /\ songs = write_song(write_song({}, 1, "A440"), 2, "A440")
    /\ fingerprint \in FetchTables
    /\ next_id = 3
    /\ report = NoReport
    /\ db_matches_by_hash = <<>>
    /\ results = <<>>
    /\ FftIdle
    /\ EnvIdle

NextFetch == \E hashes_in \in FetchInputs : FetchMatchesGroupedByHash(hashes_in)

SpecFetch == InitFetch /\ [][NextFetch]_vars

---------------------------------------------------------------------------
(* SpecVote: vote_best_matches applied to bounded arguments. *)

VoteInfos ==
    {[hash |-> HashedValue(515, 515, 93), abs_anchor_tm_offset |-> 0, song_id |-> 1],
     [hash |-> HashedValue(515, 515, 93), abs_anchor_tm_offset |-> 1024, song_id |-> 1],
     [hash |-> HashedValue(515, 2051, 186), abs_anchor_tm_offset |-> 0, song_id |-> 1]}

\* a Vec of one hash: rows of the table, so no (song_id, time) twice; the
\* (song_id, db_time) pairs are of two songs, at 0, 1024 (93 ms) and 2048
\* samples (186 ms)
VoteVecs ==
    {v \in UNION {[1..n -> {<<1, 0>>, <<1, 1024>>, <<1, 2048>>, <<2, 0>>}] :
                     n \in 1..MaxMatches} :
        \A i, j \in DOMAIN v : v[i] = v[j] => i = j}

\* a row has one hash, so the Vecs of different hashes share no row
VoteMaps ==
    {m \in UNION {[H -> VoteVecs] : H \in SUBSET {f.hash : f \in VoteInfos}} :
        \A h1, h2 \in DOMAIN m :
            h1 # h2 => \A i \in DOMAIN m[h1], j \in DOMAIN m[h2] : m[h1][i] # m[h2][j]}

InitVote ==
    /\ fft_buffer = <<>>
    /\ fingerprints \in UNION {[1..n -> VoteInfos] : n \in 0..MaxQuery}
    /\ emitted = <<>>
    /\ songs = {}
    /\ fingerprint = {}
    /\ next_id = 1
    /\ report = NoReport
    /\ db_matches_by_hash \in VoteMaps
    /\ results = <<>>
    /\ FftIdle
    /\ EnvIdle

VoteBestMatches(top_k) ==
    /\ results' \in vote_best_matches(fingerprints, db_matches_by_hash, top_k)
    /\ report' = [op |-> "vote", top_k |-> top_k]
    /\ UNCHANGED <<fftvars, envvars>>
    /\ UNCHANGED <<fft_buffer, fingerprints, emitted, songs, fingerprint, next_id,
                   db_matches_by_hash>>

\* the callers pass 1 (tester.rs) and 5 (main.rs)
NextVote == \E top_k \in {1, 5} : VoteBestMatches(top_k)

SpecVote == InitVote /\ [][NextVote]_vars

---------------------------------------------------------------------------
(* SpecPeaks: find_peaks applied to the spectra of a default engine.  A    *)
(* spectrum is zero but for isolated maxima: in each band a comb of strong *)
(* maxima (levels 16, 17, ...) followed by weak ones (level 1), and maxima *)
(* of level 32 at bins next to the limits of the bands and of the range.   *)

\* the first bin of the comb of each band
CombStart == [low |-> 6, mid |-> 58, high |-> 375]

\* (strong, weak) maxima of a comb
CombSizes == {<<0, 0>>, <<1, 0>>, <<1, 2>>, <<MaxStrong - 1, MaxWeak>>,
              <<MaxStrong, MaxWeak>>}

CombPeaks(start, size) ==
    {<<start + 2 * j, 16 + j>> : j \in 0..(size[1] - 1)}
        \cup {<<start + 2 * (size[1] + j), 1>> : j \in 0..(size[2] - 1)}

SpectrumOf(P) ==
    [i \in 0..(CHUNK_SIZE \div 2 - 1) |->
        IF \E q \in P : q[1] = i THEN (CHOOSE q \in P : q[1] = i)[2] ELSE 0]

InitPeaks ==
    /\ fft_buffer = <<>>
    /\ fingerprints = <<>>
    /\ emitted = <<>>
    /\ songs = {}
    /\ fingerprint = {}
    /\ next_id = 1
    /\ report = NoReport
    /\ db_matches_by_hash = <<>>
    /\ results = <<>>
    /\ engine = Default
    /\ buf_len = 0
    /\ position = 0
    /\ chunks = <<>>
    \* bins 3 and 931 are outside (20 Hz, 5000 Hz); 4, 55 | 56, 372 | 373, 930
    \* are the first and last bins of the three bands
    /\ magnitudes \in
           {SpectrumOf(CombPeaks(CombStart.low, c[1])
                           \cup CombPeaks(CombStart.mid, c[2])
                           \cup CombPeaks(CombStart.high, c[3])
                           \cup {<<b, 32>> : b \in c[4]}) :
               c \in CombSizes \X CombSizes \X CombSizes
                        \X {{}, {3, 931}, {4, 55, 372, 930}, {56, 373}}}
    /\ final_peaks = <<>>
    /\ EnvIdle

FindPeaks ==
    /\ report.op = "none"
    /\ \E r \in {find_peaks(magnitudes, engine.CHUNK_SIZE, SAMPLE_RATE)} :
           /\ final_peaks' = r.peaks
           /\ report' = [op |-> "find_peaks", status |-> r.status]
    /\ UNCHANGED envvars
    /\ UNCHANGED <<fft_buffer, fingerprints, emitted, songs, fingerprint, next_id,
                   db_matches_by_hash, results, engine, buf_len, position, chunks,
                   magnitudes>>

NextPeaks == FindPeaks

SpecPeaks == InitPeaks /\ [][NextPeaks]_vars

---------------------------------------------------------------------------
(* SpecFft: an engine is built by new or by default, frames buffers one    *)
(* loop iteration at a time, and the frames returned are fingerprinted.    *)
(* A buffer is its length; the transform of each chunk is any spectrum of  *)
(* the size of the chunk.  A position that wrapped around below zero is    *)
(* the negative number it is congruent to modulo 2^64.                     *)

\* CooleyTukeyFFT::new: the engine, or no engine after the panic
new(chunk_size, overlap_size) ==
    IF is_power_of_two(chunk_size) = FALSE THEN NoEngine
    ELSE [built |-> TRUE, CHUNK_SIZE |-> chunk_size, OVERLAP_SIZE |-> overlap_size]

\* the lengths around each number of frames up to MaxFrames; when the hop
\* is not positive, the lengths around one chunk
BufLens(e) ==
    LET hop == e.CHUNK_SIZE - e.OVERLAP_SIZE
    IN  IF hop > 0
        THEN {n \in {0} \cup {e.CHUNK_SIZE + k * hop + d :
                                  k \in 0..(MaxFrames - 1), d \in {-1, 0, 1}} :
                 n >= 0 /\ n < e.CHUNK_SIZE + MaxFrames * hop}
        ELSE {n \in {0, e.CHUNK_SIZE - 1, e.CHUNK_SIZE, e.CHUNK_SIZE + 1} : n >= 0}

\* a tone at bin 96 over two weak maxima of its band; Spectra adds the same
\* at bin 382
ToneA == {<<96, 16>>, <<100, 1>>, <<104, 1>>}

\* the spectra of a chunk of n samples
Spectra(n) ==
    IF n = CHUNK_SIZE
    THEN {SpectrumOf({}), SpectrumOf(ToneA), 
          SpectrumOf(ToneA \cup {<<382, 16>>, <<386, 1>>, <<390, 1>>})}
    ELSE {[i \in 0..(n \div 2 - 1) |-> 0], [i \in 0..(n \div 2 - 1) |-> i + 1]}

InitFft ==
    /\ fft_buffer = <<>>
    /\ fingerprints = <<>>
    /\ emitted = <<>>
    /\ songs = {}
    /\ fingerprint = {}
    /\ next_id = 1
    /\ report = NoReport
    /\ db_matches_by_hash = <<>>
    /\ results = <<>>
    /\ engine = NoEngine
    /\ buf_len = 0
    /\ position = 0
    /\ chunks = <<>>
    /\ magnitudes = <<>>
    /\ final_peaks = <<>>
    /\ EnvIdle

New(chunk_size, overlap_size) ==
    /\ ~engine.built
    /\ report.op = "none"
    /\ \E e \in {new(chunk_size, overlap_size)} :
           /\ engine' = e
           /\ report' = [op |-> "new", CHUNK_SIZE |-> chunk_size,
                         OVERLAP_SIZE |-> overlap_size,
                         status |-> IF e.built THEN "ok" ELSE "panic"]
    /\ UNCHANGED envvars
    /\ UNCHANGED <<fft_buffer, fingerprints, emitted, songs, fingerprint, next_id,
                   db_matches_by_hash, results, buf_len, position, chunks,
                   magnitudes, final_peaks>>

NewDefault ==
    /\ ~engine.built
    /\ report.op = "none"
    /\ engine' = Default
    /\ report' = [op |-> "default", status |-> "ok"]
    /\ UNCHANGED envvars
    /\ UNCHANGED <<fft_buffer, fingerprints, emitted, songs, fingerprint, next_id,
                   db_matches_by_hash, results, buf_len, position, chunks,
                   magnitudes, final_peaks>>

\* the entry of generate_freq_time_distribution
Generate(len) ==
    /\ engine.built
    /\ report.op \in {"new", "default"}
    /\ buf_len' = len
    /\ position' = 0
    /\ fft_buffer' = <<>>
    /\ chunks' = <<>>
    /\ report' = [op |-> "generate_freq_time_distribution", status |-> "running"]
    /\ UNCHANGED envvars
    /\ UNCHANGED <<fingerprints, emitted, songs, fingerprint, next_id,
                   db_matches_by_hash, results, engine, magnitudes, final_peaks>>

\* position + CHUNK_SIZE < buf_len (a variant used to test the framing)
LoopCondStrict(e, pos, len) ==
    IF pos + e.CHUNK_SIZE >= 0 THEN pos + e.CHUNK_SIZE < len ELSE FALSE

\* position + self.CHUNK_SIZE <= buf_len; the sum of a wrapped position is
\* small again when it wraps a second time, and huge when it does not
LoopCond(e, pos, len) ==
    IF pos + e.CHUNK_SIZE >= 0 THEN pos + e.CHUNK_SIZE <= len ELSE FALSE

Running == report.op = "generate_freq_time_distribution" /\ report.status = "running"

Panic ==
    /\ report' = [report EXCEPT !.status = "panic"]
    /\ UNCHANGED <<fft_buffer, position, chunks, magnitudes, final_peaks>>

\* one iteration of the while loop.  A wrapped position makes the slice
\* start after its end: a panic.  CHUNK_SIZE - OVERLAP_SIZE below zero
\* panics where overflow is checked and wraps where it is not.
Step ==
    /\ Running
    /\ LoopCond(engine, position, buf_len)
    /\ Len(fft_buffer) < MaxFrames
    /\ IF position < 0 THEN Panic
       ELSE \E mags \in Spectra(engine.CHUNK_SIZE) :
            \E r \in {find_peaks(mags, engine.CHUNK_SIZE, SAMPLE_RATE)} :
            \E overflow_checks \in BOOLEAN :
                IF r.status = "panic" THEN Panic
                ELSE IF overflow_checks /\ engine.OVERLAP_SIZE > engine.CHUNK_SIZE
                THEN Panic
                ELSE /\ magnitudes' = mags
                     /\ final_peaks' = r.peaks
                     /\ chunks' = Append(chunks, [start |-> position,
                                                  end |-> position + engine.CHUNK_SIZE])
                     /\ fft_buffer' = Append(fft_buffer,
                                             [time |-> position, peaks |-> r.peaks])
                     /\ position' = position + engine.CHUNK_SIZE - engine.OVERLAP_SIZE
                     /\ report' = report
    /\ UNCHANGED envvars
    /\ UNCHANGED <<fingerprints, emitted, songs, fingerprint, next_id,
                   db_matches_by_hash, results, engine, buf_len>>

\* the loop condition fails: the frames are returned
Return ==
    /\ Running
    /\ ~LoopCond(engine, position, buf_len)
    /\ report' = [report EXCEPT !.status = "done"]
    /\ UNCHANGED <<fft_buffer, fingerprints, emitted, songs, fingerprint, next_id,
                   db_matches_by_hash, results, fftvars, envvars>>

\* generate_audio_fingerprint(&fft_distribution) on the frames returned
FingerprintDistribution ==
    /\ report.op = "generate_freq_time_distribution"
    /\ report.status = "done"
    /\ \E e \in {Emissions(fft_buffer)} :
           /\ emitted' = e
           /\ fingerprints' = generate_audio_fingerprint(fft_buffer)
           /\ report' = [op |-> "generate_audio_fingerprint", count |-> Len(e)]
    /\ UNCHANGED <<fft_buffer, songs, fingerprint, next_id, db_matches_by_hash,
                   results, fftvars, envvars>>

NextFft ==
    \/ \E chunk_size \in {0, 1, 2, 4, 1500, CHUNK_SIZE},
          overlap_size \in {0, 1, 2, 3, 4, 5, OVERLAP_SIZE} :
           New(chunk_size, overlap_size)
    \/ NewDefault
    \/ \E len \in BufLens(engine) : Generate(len)
    \/ Step
    \/ Return
    \/ FingerprintDistribution

SpecFft == InitFft /\ [][NextFft]_vars

---------------------------------------------------------------------------
(* Spec: the drivers of main.rs, ingest_file and match_file, over a small  *)
(* library of files.  A file is identified with the buffer its normalised  *)
(* audio decodes to, and that buffer stands for its name.  The frames of   *)
(* a snippet are taken at the rate of the ingest side, 11000 Hz, which is  *)
(* what the tester's snippets have; the rate match_file itself hands the   *)
(* engine is the subject of SpecRun.                                       *)

PeaksA == <<[freq |-> 96 * FreqPerBin]>>

\* the songs: a steady tone, the same tone with a second partial in its last
\* frame, and a silent file
Library ==
    { [k \in 1..MaxFrames |-> FrameAt(k, PeaksA)],
      [k \in 1..MaxFrames |-> FrameAt(k, IF k = MaxFrames
                           THEN PeaksA \o <<[freq |-> 382 * FreqPerBin]>>
                           ELSE PeaksA)],
      [k \in 1..MaxFrames |-> FrameAt(k, <<>>)] }

\* frames k .. k+n-1 of buf as a recording of their own: the snippet of n
\* frames that starts (k-1) hops into buf
Slice(buf, k, n) == [i \in 1..n |-> FrameAt(i, buf[k + i - 1].peaks)]

Snippets ==
    {Slice(buf, k, n) : <<buf, k, n>> \in
        {x \in Library \X (1..MaxFrames) \X (1..MaxFrames) : x[2] + x[3] - 1 <= MaxFrames}}

TOP_K == 5

Init ==
    /\ fft_buffer = <<>>
    /\ fingerprints = <<>>
    /\ emitted = <<>>
    /\ songs = {}
    /\ fingerprint = {}
    /\ next_id = 1
    /\ report = NoReport
    /\ db_matches_by_hash = <<>>
    /\ results = <<>>
    /\ FftIdle
    /\ EnvIdle

\* the pushes of generate_audio_fingerprint for each file of the model,
\* computed once
EmissionsOf == [buf \in Library \cup Snippets |-> Emissions(buf)]

InfosOf(e) == [k \in 1..Len(e) |-> e[k].info]

\* ingest_file: decode, fingerprint, write_song, write_fingerprints
IngestFile(file, fail_at) ==
    /\ next_id <= MaxSongs
    /\ fft_buffer' = file
    /\ fingerprints' = InfosOf(EmissionsOf[file])
    /\ emitted' = EmissionsOf[file]
    /\ songs' = write_song(songs, next_id, file)
    /\ next_id' = next_id + 1
    /\ \E r \in {write_fingerprints(fingerprint, next_id,
                                    InfosOf(EmissionsOf[file]), fail_at)} :
           /\ fingerprint' = r.table
           /\ report' = [op |-> "ingest_file", file |-> file, song_id |-> next_id,
                         status |-> r.status, count |-> r.count,
                         executed |-> r.executed, rows |-> r.rows,
                         fail_at |-> r.fail_at]
    /\ UNCHANGED <<fftvars, envvars>>
    /\ UNCHANGED <<db_matches_by_hash, results>>

\* match_file: decode, fingerprint, look the hashes up, vote
MatchFile(file) ==
    \E fps \in {InfosOf(EmissionsOf[file])} :
        /\ fft_buffer' = file
        /\ fingerprints' = fps
        /\ emitted' = EmissionsOf[file]
        /\ \E m \in fetch_matches_grouped_by_hash(fingerprint,
                        [i \in DOMAIN fps |-> fps[i].hash]) :
               /\ db_matches_by_hash' = m
               /\ results' \in vote_best_matches(fps, m, TOP_K)
        /\ report' = [op |-> "match_file", file |-> file]
        /\ UNCHANGED <<fftvars, envvars>>
        /\ UNCHANGED <<songs, fingerprint, next_id>>

Next ==
    \/ \E file \in Library :
           \E fail_at \in 0..NumBatches(InfosOf(EmissionsOf[file]), next_id) :
               IngestFile(file, fail_at)
    \/ \E file \in Snippets : MatchFile(file)

Spec == Init /\ [][Next]_vars

---------------------------------------------------------------------------
(* SpecRun: one run of the command-line program, main of src/src/main.rs,  *)
(* a step of a driver at a time.  A step that can fail takes its outcome   *)
(* from the environment: the transcoder, the decoder, the sound devices    *)
(* and the database.  report.errors collects the errors the run has met.   *)

NORMALIZED_INGEST_PATH == "temp_normalized_ingest.wav"
RAW_WAV_PATH == "temp_raw_recording.wav"
NORMALIZED_WAV_PATH == "temp_normalized_recording.wav"
SNIPPET_TEMP_PATH == "temp_test_snippet.wav"

\* AudioProcessor::TARGET_SAMPLE_RATE
TARGET_SAMPLE_RATE == 11025

\* the exit code of a process whose main thread panicked
PANIC_EXIT_CODE == 101

At(l) == [at |-> l, song |-> 0, snippet |-> 0]

Goto(l) == pc' = [pc EXCEPT !.at = l]

\* the run meets error e
Met(e) == report' = [report EXCEPT !.errors = @ \cup {e}]

\* the process ends
Exit(code) ==
    /\ pc' = [pc EXCEPT !.at = "exited"]
    /\ exit_code' = code

\* panic!, unwrap or expect on the main thread
PanicWith(e) == Met(e) /\ Exit(PANIC_EXIT_CODE)

\* the driver returns to main, and main returns
ReturnToMain == Exit(0)

\* what a step of a driver leaves alone
RunFrame ==
    UNCHANGED <<fft_buffer, fingerprints, emitted, songs, fingerprint, next_id,
                db_matches_by_hash, results, fftvars, complex_buff, products,
                stream, mutex, recorded_samples, callback, delivered, returned>>

InitRun ==
    /\ fft_buffer = <<>>
    /\ fingerprints = <<>>
    /\ emitted = <<>>
    /\ songs = {}
    /\ fingerprint = {}
    /\ next_id = 1
    /\ report = [op |-> "none", errors |-> {}]
    /\ db_matches_by_hash = <<>>
    /\ results = <<>>
    /\ FftIdle
    /\ EnvIdle

\* fn main: the dispatch on the parsed arguments
Main(args) ==
    /\ pc.at = "idle"
    /\ LET entry == CASE args.mode = "ingest" -> "ingest_file"
                      [] args.mode = "recognise" -> "ingest_audio"
                      [] args.mode = "match" -> "match_file"
                      [] args.mode = "random_test" -> "run_random_snippet_test"
                      [] OTHER -> "none"
           first == CASE args.mode = "ingest" -> "if_db"
                      [] args.mode = "recognise" -> "ia_record"
                      [] args.mode = "match" -> "mf_decode"
                      [] args.mode = "random_test" -> "rt_db"
                      [] OTHER -> "exited"
       IN  IF args.mode = "batch_test"
           THEN \* no branch of main tests batch_test
                /\ report' = [op |-> "main", errors |-> {}]
                /\ ReturnToMain
           ELSE IF args.mode # "recognise" /\ ~args.file
           THEN /\ report' = [op |-> "main", errors |-> {"usage"}]
                /\ Exit(1)
           ELSE /\ report' = [op |-> entry, errors |-> {}]
                /\ Goto(first)
                /\ UNCHANGED exit_code
    /\ UNCHANGED <<files, handed>>
    /\ RunFrame

\* DB::new(): env::var(..).expect, PgConnection::establish(..).unwrap_or_else(panic)
DbNew(from, to) ==
    /\ pc.at = from
    /\ \E ok \in BOOLEAN :
           IF ok THEN Goto(to) /\ UNCHANGED <<report, exit_code>>
           ELSE PanicWith("db_connect")
    /\ UNCHANGED <<files, handed>>
    /\ RunFrame

\* Command::new("ffmpeg") ... .arg(path).status(): on success path exists;
\* a failed run may have left path behind
Ffmpeg(path, ok, wrote) == IF ok \/ wrote THEN files \cup {path} ELSE files

\* audio_processor.get_decoded_audio(path): File::open(..).unwrap() and
\* panic!("Generating audio samples failed") abort the run
Decode(from, to, hand) ==
    /\ pc.at = from
    /\ \E outcome \in {"ok", "open", "decode"} :
           IF outcome = "ok"
           THEN /\ Goto(to)
                /\ handed' = hand
                /\ UNCHANGED <<report, exit_code>>
           ELSE PanicWith(outcome) /\ UNCHANGED handed
    /\ UNCHANGED files
    /\ RunFrame

\* the samples handed to generate_freq_time_distribution: the rate they were
\* sampled at, and the sample_rate argument
Hand(entry, rate, sample_rate) ==
    [entry |-> entry, rate |-> rate, sample_rate |-> sample_rate]

\* ingest_file, ingest_audio and run_random_snippet_test decode the file
\* ffmpeg wrote with -ar 11000 and pass the rate the decoder reports
HandNormalized(entry) == Hand(entry, SAMPLE_RATE, SAMPLE_RATE)

(* ingest_file *)

IngestFfmpeg ==
    /\ pc.at = "if_ffmpeg"
    /\ \E ok, wrote \in BOOLEAN :
           /\ files' = Ffmpeg(NORMALIZED_INGEST_PATH, ok, wrote)
           /\ IF ok THEN Goto("if_decode") /\ UNCHANGED <<report, exit_code>>
              ELSE Met("ffmpeg") /\ ReturnToMain
    /\ UNCHANGED handed
    /\ RunFrame

\* db.write_song(&song_name): get_result(..).unwrap()
IngestWriteSong ==
    /\ pc.at = "if_write_song"
    /\ \E ok \in BOOLEAN :
           IF ok THEN Goto("if_write_fingerprints") /\ UNCHANGED <<report, exit_code>>
           ELSE PanicWith("write_song")
    /\ UNCHANGED <<files, handed>>
    /\ RunFrame

\* db.write_fingerprints(..): a failed transaction is printed, and the call returns
IngestWriteFingerprints ==
    /\ pc.at = "if_write_fingerprints"
    /\ \E ok \in BOOLEAN :
           IF ok THEN UNCHANGED report ELSE Met("transaction")
    /\ Goto("if_cleanup")
    /\ UNCHANGED <<files, exit_code, handed>>
    /\ RunFrame

\* let _ = fs::remove_file(NORMALIZED_INGEST_PATH), the last statement
IngestCleanup ==
    /\ pc.at = "if_cleanup"
    /\ files' = files \ {NORMALIZED_INGEST_PATH}
    /\ ReturnToMain
    /\ UNCHANGED <<report, handed>>
    /\ RunFrame

(* match_file *)

\* db.fetch_matches_grouped_by_hash(..): .expect("Transaction failed")
Fetch(from, to) ==
    /\ pc.at = from
    /\ \E ok \in BOOLEAN :
           IF ok THEN Goto(to) /\ UNCHANGED <<report, exit_code>>
           ELSE PanicWith("lookup")
    /\ UNCHANGED <<files, handed>>
    /\ RunFrame

\* the printing of the results: db.fetch_song_titles(..) only when there are
\* results; its failure is replaced by an empty map (unwrap_or_default)
Titles(from, to) ==
    /\ pc.at = from
    /\ \E outcome \in {"none", "ok", "titles"} :
           IF outcome = "titles" THEN Met("titles") ELSE UNCHANGED report
    /\ Goto(to)
    /\ UNCHANGED <<files, exit_code, handed>>
    /\ RunFrame

MatchReturn ==
    /\ pc.at = "mf_return"
    /\ ReturnToMain
    /\ UNCHANGED <<report, files, handed>>
    /\ RunFrame

(* ingest_audio *)

\* audio_processor.record_audio(12): expect("No input device found") and the
\* unwraps of the stream set-up
RecordAudio ==
    /\ pc.at = "ia_record"
    /\ \E ok \in BOOLEAN :
           IF ok THEN Goto("ia_save") /\ UNCHANGED <<report, exit_code>>
           ELSE PanicWith("no_device")
    /\ UNCHANGED <<files, handed>>
    /\ RunFrame

\* audio_processor.save_as_wav(.., RAW_WAV_PATH): on Err the driver returns;
\* the file exists when the failure came after WavWriter::create
SaveAsWav ==
    /\ pc.at = "ia_save"
    /\ \E ok, created \in BOOLEAN :
           /\ files' = IF ok \/ created THEN files \cup {RAW_WAV_PATH} ELSE files
           /\ IF ok THEN Goto("ia_ffmpeg") /\ UNCHANGED <<report, exit_code>>
              ELSE Met("save_wav") /\ ReturnToMain
    /\ UNCHANGED handed
    /\ RunFrame

\* on failure the raw file is removed before the return
RecogniseFfmpeg ==
    /\ pc.at = "ia_ffmpeg"
    /\ \E ok, wrote \in BOOLEAN :
           IF ok
           THEN /\ files' = Ffmpeg(NORMALIZED_WAV_PATH, ok, wrote)
                /\ Goto("ia_decode")
                /\ UNCHANGED <<report, exit_code>>
           ELSE /\ files' = Ffmpeg(NORMALIZED_WAV_PATH, ok, wrote) \ {RAW_WAV_PATH}
                /\ Met("ffmpeg")
                /\ ReturnToMain
    /\ UNCHANGED handed
    /\ RunFrame

\* audio_processor.play_recording(..): expect("No output device available."),
\* expect("Failed to build output stream."); then the samples go to the engine
PlayRecording ==
    /\ pc.at = "ia_play"
    /\ \E ok \in BOOLEAN :
           IF ok
           THEN /\ Goto("ia_db")
                /\ handed' = HandNormalized("ingest_audio")
                /\ UNCHANGED <<report, exit_code>>
           ELSE PanicWith("no_device") /\ UNCHANGED handed
    /\ UNCHANGED files
    /\ RunFrame

\* the two remove_file calls that end ingest_audio
RecogniseCleanup ==
    /\ pc.at = "ia_cleanup"
    /\ files' = files \ {RAW_WAV_PATH, NORMALIZED_WAV_PATH}
    /\ ReturnToMain
    /\ UNCHANGED <<report, handed>>
    /\ RunFrame

(* run_random_snippet_test: pc.song counts the directory entries still to  *)
(* visit, pc.snippet the snippets still to cut from the current song.      *)

SNIPPETS_PER_SONG == 3

\* fs::read_dir(songs_dir): Err returns; an entry that fails to read empties the list
ReadDir ==
    /\ pc.at = "rt_read_dir"
    /\ \E ok \in BOOLEAN, n \in 0..MaxSongs :
           IF ok THEN /\ pc' = [at |-> "rt_song", song |-> n, snippet |-> 0]
                      /\ UNCHANGED <<report, exit_code>>
           ELSE Met("read_dir") /\ ReturnToMain
    /\ UNCHANGED <<files, handed>>
    /\ RunFrame

\* the head of the loop over the entries: a directory, a failed ffprobe, an
\* unparsable duration or a short song skips the entry
NextSong ==
    /\ pc.at = "rt_song"
    /\ IF pc.song = 0 THEN Goto("rt_cleanup") /\ UNCHANGED report
       ELSE \E outcome \in {"ok", "skip", "ffprobe"} :
            /\ IF outcome = "ffprobe" THEN Met("ffprobe") ELSE UNCHANGED report
            /\ pc' = IF outcome = "ok"
                     THEN [at |-> "rt_snippet", song |-> pc.song - 1,
                           snippet |-> SNIPPETS_PER_SONG]
                     ELSE [pc EXCEPT !.song = @ - 1]
    /\ UNCHANGED <<files, exit_code, handed>>
    /\ RunFrame

\* continue: on to the next snippet
Continue == pc' = [pc EXCEPT !.at = "rt_snippet", !.snippet = @ - 1]

\* the head of the loop over the snippets, and the ffmpeg run that cuts one
SnippetFfmpeg ==
    /\ pc.at = "rt_snippet"
    /\ IF pc.snippet = 0 THEN Goto("rt_song") /\ UNCHANGED <<report, files>>
       ELSE \E ok, wrote \in BOOLEAN :
            /\ files' = Ffmpeg(SNIPPET_TEMP_PATH, ok, wrote)
            /\ IF ok THEN Goto("rt_decode") /\ UNCHANGED report
               ELSE Met("ffmpeg") /\ Continue
    /\ UNCHANGED <<exit_code, handed>>
    /\ RunFrame

\* if fingerprints.is_empty() { continue; }
SnippetFingerprints ==
    /\ pc.at = "rt_fingerprint"
    /\ \E empty \in BOOLEAN : IF empty THEN Continue ELSE Goto("rt_fetch")
    /\ UNCHANGED <<report, files, exit_code, handed>>
    /\ RunFrame

\* results.first(): None prints "No match found"; Some looks the title up,
\* and titles.get(..).unwrap() panics when the lookup failed
SnippetTitle ==
    /\ pc.at = "rt_titles"
    /\ \E outcome \in {"none", "ok", "titles"} :
           IF outcome = "titles" THEN PanicWith("titles")
           ELSE Continue /\ UNCHANGED <<report, exit_code>>
    /\ UNCHANGED <<files, handed>>
    /\ RunFrame

\* let _ = fs::remove_file(SNIPPET_TEMP_PATH), after the loops
TesterCleanup ==
    /\ pc.at = "rt_cleanup"
    /\ files' = files \ {SNIPPET_TEMP_PATH}
    /\ ReturnToMain
    /\ UNCHANGED <<report, handed>>
    /\ RunFrame

NextRun ==
    \* the command lines clap accepts: exactly one mode (the ArgGroup),
    \* --file optional
    \/ \E args \in [mode : {"ingest", "recognise", "match", "batch_test",
                            "random_test"},
                    file : BOOLEAN] : Main(args)
    \/ DbNew("if_db", "if_ffmpeg")
    \/ IngestFfmpeg
    \/ Decode("if_decode", "if_write_song", HandNormalized("ingest_file"))
    \/ IngestWriteSong
    \/ IngestWriteFingerprints
    \/ IngestCleanup
    \* match_file resamples to TARGET_SAMPLE_RATE unless the file has that
    \* rate, and passes TARGET_SAMPLE_RATE
    \/ \E sample_rate \in {SAMPLE_RATE, TARGET_SAMPLE_RATE, 44100} :
           Decode("mf_decode", "mf_db",
                  Hand("match_file",
                       IF sample_rate # TARGET_SAMPLE_RATE
                       THEN TARGET_SAMPLE_RATE ELSE sample_rate,
                       TARGET_SAMPLE_RATE))
    \/ DbNew("mf_db", "mf_fetch")
    \/ Fetch("mf_fetch", "mf_titles")
    \/ Titles("mf_titles", "mf_return")
    \/ MatchReturn
    \/ RecordAudio
    \/ SaveAsWav
    \/ RecogniseFfmpeg
    \/ Decode("ia_decode", "ia_play", handed)
    \/ PlayRecording
    \/ DbNew("ia_db", "ia_fetch")
    \/ Fetch("ia_fetch", "ia_titles")
    \/ Titles("ia_titles", "ia_cleanup")
    \/ RecogniseCleanup
    \/ DbNew("rt_db", "rt_read_dir")
    \/ ReadDir
    \/ NextSong
    \/ SnippetFfmpeg
    \/ Decode("rt_decode", "rt_fingerprint", HandNormalized("run_random_snippet_test"))
    \/ SnippetFingerprints
    \/ Fetch("rt_fetch", "rt_titles")
    \/ SnippetTitle
    \/ TesterCleanup

SpecRun == InitRun /\ [][NextRun]_vars

---------------------------------------------------------------------------
(* SpecMic: AudioProcessor::record_audio, src/src/audio_processor.rs.  Two *)
(* threads: record_audio on the main thread (pc) and the input callback on *)
(* the audio thread of cpal (callback).  The device hands the callback one *)
(* slice at a time; dropping the stream stops the audio thread and waits   *)
(* for a callback that is running.  A sample is the fraction num / den.    *)

\* how many slices the device hands over at most
MaxDeliveries == 2

I16_MAX == 32767

\* data: &[f32] is appended as it is; an i16 sample becomes sample as f32 / i16::MAX as f32
ToF32(format, sample) ==
    IF format = "I16" THEN [num |-> sample, den |-> I16_MAX]
    ELSE [num |-> sample, den |-> 1]

MicFrame ==
    UNCHANGED <<fft_buffer, fingerprints, emitted, songs, fingerprint, next_id,
                report, db_matches_by_hash, results, fftvars, complex_buff,
                products, files, handed>>

InitMic ==
    /\ fft_buffer = <<>>
    /\ fingerprints = <<>>
    /\ emitted = <<>>
    /\ songs = {}
    /\ fingerprint = {}
    /\ next_id = 1
    /\ report = NoReport
    /\ db_matches_by_hash = <<>>
    /\ results = <<>>
    /\ FftIdle
    /\ EnvIdle

\* match config_cpal.sample_format(): a stream with the callback of the
\* format, or panic!("Unsupported sample format")
BuildInputStream(format) ==
    /\ pc.at = "idle"
    /\ IF format \in {"F32", "I16"}
       THEN /\ stream' = [state |-> "built", format |-> format]
            /\ pc' = At("play")
            /\ UNCHANGED exit_code
       ELSE /\ pc' = At("exited")
            /\ exit_code' = PANIC_EXIT_CODE
            /\ UNCHANGED stream
    /\ UNCHANGED <<mutex, recorded_samples, callback, delivered, returned>>
    /\ MicFrame

\* stream.play().unwrap()
Play ==
    /\ pc.at = "play"
    /\ stream' = [stream EXCEPT !.state = "playing"]
    /\ pc' = At("sleep")
    /\ UNCHANGED <<exit_code, mutex, recorded_samples, callback, delivered, returned>>
    /\ MicFrame

\* thread::sleep(Duration::from_secs(duration_secs)) is over
Sleep ==
    /\ pc.at = "sleep"
    /\ pc' = At("drop")
    /\ UNCHANGED <<exit_code, stream, mutex, recorded_samples, callback, delivered,
                   returned>>
    /\ MicFrame

\* the audio thread calls the closure with the next slice of the device
Deliver(data) ==
    /\ stream.state = "playing"
    /\ callback.at = "idle"
    /\ Len(delivered) < MaxDeliveries
    /\ callback' = [at |-> "lock", data |-> data, i |-> 1]
    /\ delivered' = Append(delivered, data)
    /\ UNCHANGED <<pc, exit_code, stream, mutex, recorded_samples, returned>>
    /\ MicFrame

\* samples_clone.lock().unwrap() in the callback
CallbackLock ==
    /\ callback.at = "lock"
    /\ mutex = "free"
    /\ mutex' = "callback"
    /\ callback' = [callback EXCEPT !.at = "append"]
    /\ UNCHANGED <<pc, exit_code, stream, recorded_samples, delivered, returned>>
    /\ MicFrame

\* F32: extend_from_slice(data), the whole slice; I16: one push of the for loop
CallbackAppend ==
    /\ callback.at = "append"
    /\ IF stream.format = "F32"
       THEN /\ recorded_samples' = recorded_samples \o
                    [k \in 1..Len(callback.data) |-> ToF32("F32", callback.data[k])]
            /\ callback' = [callback EXCEPT !.at = "unlock"]
       ELSE /\ recorded_samples' = Append(recorded_samples,
                                          ToF32("I16", callback.data[callback.i]))
            /\ callback' = IF callback.i = Len(callback.data)
                           THEN [callback EXCEPT !.at = "unlock"]
                           ELSE [callback EXCEPT !.i = @ + 1]
    /\ UNCHANGED <<pc, exit_code, stream, mutex, delivered, returned>>
    /\ MicFrame

\* the MutexGuard goes out of scope and the closure returns
CallbackUnlock ==
    /\ callback.at = "unlock"
    /\ mutex' = "free"
    /\ callback' = [at |-> "idle", data |-> <<>>, i |-> 1]
    /\ UNCHANGED <<pc, exit_code, stream, recorded_samples, delivered, returned>>
    /\ MicFrame

\* a drop that returns while a callback is still running (a variant used to
\* test the hand-off)
DropReturnsAtOnce(cb) == TRUE

\* drop(stream) returns once the audio thread has stopped: no callback is
\* running, and none will be started
DropReturns(cb) == cb.at = "idle"

\* drop(stream)
DropStream ==
    /\ pc.at = "drop"
    /\ DropReturns(callback)
    /\ stream' = [stream EXCEPT !.state = "dropped"]
    /\ pc' = At("lock")
    /\ UNCHANGED <<exit_code, mutex, recorded_samples, callback, delivered, returned>>
    /\ MicFrame

\* recorded_samples.lock().unwrap() on the main thread
MainLock ==
    /\ pc.at = "lock"
    /\ mutex = "free"
    /\ mutex' = "main"
    /\ pc' = At("clone")
    /\ UNCHANGED <<exit_code, stream, recorded_samples, callback, delivered, returned>>
    /\ MicFrame

\* .clone(), the end of the temporary guard, and the return
MainClone ==
    /\ pc.at = "clone"
    /\ returned' = recorded_samples
    /\ mutex' = "free"
    /\ pc' = At("returned")
    /\ UNCHANGED <<exit_code, stream, recorded_samples, callback, delivered>>
    /\ MicFrame

NextMic ==
    \/ \E format \in {"F32", "I16", "U16"} : BuildInputStream(format)
    \/ Play
    \/ Sleep
    \/ \E data \in {<<1, 2>>, <<3>>} : Deliver(data)
    \/ CallbackLock
    \/ CallbackAppend
    \/ CallbackUnlock
    \/ DropStream
    \/ MainLock
    \/ MainClone

SpecMic == InitMic /\ [][NextMic]_vars

---------------------------------------------------------------------------
(* SpecButterfly: Complex (src/src/fft/complex.rs) and cooley_tukey_fft    *)
(* (src/src/fft/fft.rs) on buffers of 1, 2 and 4 numbers with integer      *)
(* parts.  At these sizes every twiddle factor is 1 or -i, so that the     *)
(* transform is computed exactly.  An angle is a number of quarter turns.  *)

Complex(re, im) == [re |-> re, im |-> im]

\* Complex::from_polar(r, theta), theta = q quarter turns
from_polar(r, q) ==
    Complex(r * (CASE q % 4 = 0 -> 1 [] q % 4 = 2 -> -1 [] OTHER -> 0),
            r * (CASE q % 4 = 1 -> 1 [] q % 4 = 3 -> -1 [] OTHER -> 0))

\* impl Add, impl Sub and impl Mul for Complex
Add(self, rhs) == Complex(self.re + rhs.re, self.im + rhs.im)
Sub(self, rhs) == Complex(self.re - rhs.re, self.im - rhs.im)
Mul(self, rhs) ==
    Complex(self.re * rhs.re - self.im * rhs.im,
            self.im * rhs.re + self.im * rhs.re)

\* the samples at the even (parity 0) or odd (parity 1) indices, counted from 0
Every2nd(b, parity) == [k \in 1..(Len(b) \div 2) |-> b[2 * k - 1 + parity]]

RECURSIVE cooley_tukey_fft(_)
\* the buffer after the call, and the multiplications omega * odd[j] it made
\* (those of the even half, of the odd half, then its own)
cooley_tukey_fft(b) ==
    LET n == Len(b) IN
    IF n <= 1 THEN [buf |-> b, products |-> <<>>]
    ELSE LET even == cooley_tukey_fft(Every2nd(b, 0))
             odd == cooley_tukey_fft(Every2nd(b, 1))
             \* theta = 2 PI j / n is 4 j / n quarter turns; omega = from_polar(1, -theta)
             omega(j) == from_polar(1, 4 - (4 * j) \div n)
             prod(j) == Mul(omega(j), odd.buf[j + 1])
         IN  [buf |-> [k \in 1..n |->
                          IF k <= n \div 2
                          THEN Add(even.buf[k], prod(k - 1))
                          ELSE Sub(even.buf[k - n \div 2], prod(k - n \div 2 - 1))],
              products |-> even.products \o odd.products \o
                           [k \in 1..(n \div 2) |->
                               [self |-> omega(k - 1), rhs |-> odd.buf[k],
                                out |-> prod(k - 1)]]]

\* the buffers transformed: 1, 2 or 4 numbers with parts -1, 0 or 1
ComplexBuffers ==
    UNION {[1..n -> {Complex(re, im) : re \in {-1, 0, 1}, im \in {-1, 0, 1}}] :
               n \in {1, 2, 4}}

InitButterfly ==
    /\ fft_buffer = <<>>
    /\ fingerprints = <<>>
    /\ emitted = <<>>
    /\ songs = {}
    /\ fingerprint = {}
    /\ next_id = 1
    /\ report = NoReport
    /\ db_matches_by_hash = <<>>
    /\ results = <<>>
    /\ FftIdle
    /\ complex_buff \in ComplexBuffers
    /\ products = <<>>
    /\ RunIdle
    /\ MicIdle

\* self.cooley_tukey_fft(&mut complex_buff) of perform_fft
CooleyTukeyFft ==
    /\ report.op = "none"
    /\ \E r \in {cooley_tukey_fft(complex_buff)} :
           /\ complex_buff' = r.buf
           /\ products' = r.products
    /\ report' = [op |-> "cooley_tukey_fft"]
    /\ UNCHANGED <<fft_buffer, fingerprints, emitted, songs, fingerprint, next_id,
                   db_matches_by_hash, results, fftvars, pc, files, exit_code,
                   handed, stream, mutex, recorded_samples, callback, delivered,
                   returned>>

NextButterfly == CooleyTukeyFft

SpecButterfly == InitButterfly /\ [][NextButterfly]_vars

---------------------------------------------------------------------------
(* Claims about the fingerprint hash (checked under SpecFp). *)

SameTriple(e1, e2) ==
    /\ e1.anchor_freq_int = e2.anchor_freq_int
    /\ e1.target_freq_int = e2.target_freq_int
    /\ e1.delta_ms = e2.delta_ms

\* C1: every emitted hash is the 64-bit value
\* (anchor_freq_bin << 30) | (target_freq_bin << 14) | delta_bin of the fields
\* of its pair, no bit lost to a 32-bit intermediate.
C1_HashIsUntruncated64BitPack ==
    \A k \in DOMAIN emitted :
        fingerprints[k].hash =
            Shl64(Bits(emitted[k].anchor_freq_int), 30)
                \cup Shl64(Bits(emitted[k].target_freq_int), 14)
                \cup Bits(emitted[k].delta_ms)

\* C2: the packing is invertible, so two emitted fingerprints built from
\* different (anchor_freq_bin, target_freq_bin, delta_bin) triples never have
\* the same hash.
C2_DistinctTriplesDistinctHashes ==
    \A j, k \in DOMAIN emitted :
        fingerprints[j].hash = fingerprints[k].hash => SameTriple(emitted[j], emitted[k])

\* C3: hash determinism: two emitted fingerprints with the same
\* (anchor_freq_bin, target_freq_bin, delta_bin) have the same hash, whatever
\* their frame index, absolute anchor time or position in the output.
C3_HashDeterminism ==
    \A j, k \in DOMAIN emitted :
        SameTriple(emitted[j], emitted[k]) => fingerprints[j].hash = fingerprints[k].hash

\* C3 witness: two fingerprints of different anchor frames (hence different
\* absolute times and output positions) with the same triple were emitted.
C3_Witness ==
    \E j, k \in DOMAIN emitted :
        /\ j < k
        /\ emitted[j].idx < emitted[k].idx
        /\ fingerprints[j].abs_anchor_tm_offset < fingerprints[k].abs_anchor_tm_offset
        /\ SameTriple(emitted[j], emitted[k])
        /\ fingerprints[j].hash = fingerprints[k].hash

---------------------------------------------------------------------------
(* Claims about the index adapter (checked under SpecDB). *)

PKUnique(table) == \A r1, r2 \in table : PKey(r1) = PKey(r2) => r1 = r2

KeysOfRows(rows) == {<<rows[i].hash, TimeBucket(rows[i].absolute_time_offset)>> : i \in DOMAIN rows}

KeysOfTable(table) == {<<r.hash, TimeBucket(r.absolute_time_offset)>> : r \in table}

\* C5: a successful write_fingerprints(song_id, fps) into an index with no
\* rows for song_id persists exactly the deduplicated (hash, 10 ms bucket)
\* pairs of fps, each once, also pairs that share an anchor time.
C5_PersistedIsDedupSet ==
    [][(/\ report'.op = "write_fingerprints"
        /\ report'.status = "ok"
        /\ RowsOf(fingerprint, report'.song_id) = {})
       => (/\ KeysOfTable(RowsOf(fingerprint', report'.song_id)) = KeysOfRows(report'.rows)
           /\ Cardinality(RowsOf(fingerprint', report'.song_id)) = Len(report'.rows))]_vars

\* C6: no two rows of table fingerprint share (song_id, absolute_time_offset);
\* a write never changes or removes an existing row, a colliding row is
\* skipped (not counted, the key keeps its row) and a write the index does
\* not fail ends without error.
C6_PrimaryKeyConflictsSkipped ==
    [][/\ PKUnique(fingerprint')
       /\ \A r \in fingerprint : r \in fingerprint'
       /\ report'.op = "write_fingerprints" =>
            /\ report'.fail_at = 0 => report'.status \in {"ok", "empty"}
            /\ report'.status = "ok" =>
                 /\ report'.count = Cardinality(fingerprint' \ fingerprint)
                 /\ \A i \in DOMAIN report'.rows :
                        \E r \in fingerprint' : PKey(r) = PKey(report'.rows[i])]_vars

\* C6 witness: a write ended without error with every row skipped, one of
\* them against a row of the same key and another hash, which is still there.
C6_Witness ==
    /\ report.op = "write_fingerprints"
    /\ report.status = "ok"
    /\ report.rows # <<>>
    /\ report.count = 0
    /\ \E i \in DOMAIN report.rows : \E r \in fingerprint :
           PKey(r) = PKey(report.rows[i]) /\ r.hash # report.rows[i].hash

\* C4: a run of ingest_file on a file that an earlier run has already
\* ingested leaves table fingerprint as it was and reports 0 inserted rows.
C4_IdempotentIngest ==
    [][(/\ report'.op = "ingest_file"
        /\ report'.status = "ok"
        /\ \E s \in songs :
               s.title = report'.file /\ RowsOf(fingerprint, s.id) # {})
       => (fingerprint' = fingerprint /\ report'.count = 0)]_vars

\* C7: write_fingerprints is all-or-nothing: when a batch fails, table
\* fingerprint is as it was before the call, whatever the batches that had
\* executed inserted.
C7_FailedWriteLeavesTable ==
    [][(report'.op = "ingest_file" /\ report'.status = "err")
       => fingerprint' = fingerprint]_vars

\* C7 witness: a call failed after a batch had executed and inserted rows,
\* and no row of that call is in the table.
C7_Witness ==
    /\ report.op = "ingest_file" /\ report.status = "err"
    /\ report.executed >= 1 /\ report.count >= 1
    /\ RowsOf(fingerprint, report.song_id) = {}

\* C8: after an ingest whose fingerprint transaction failed, the song row
\* that write_song created for it is not in table songs.
C8_FailedIngestLeavesNoSongRow ==
    (report.op = "ingest_file" /\ report.status = "err")
        => \A s \in songs : s.id # report.song_id

---------------------------------------------------------------------------
(* The score and offset of vote_best_matches, over the arguments of the    *)
(* call: fingerprints is the query, db_matches_by_hash the map.            *)

\* the collisions of song id: query fingerprint i with entry m of the Vec
\* of its hash
Collisions(id) ==
    UNION {IF fingerprints[i].hash \in DOMAIN db_matches_by_hash
           THEN {<<i, m>> : m \in {x \in DOMAIN db_matches_by_hash[fingerprints[i].hash] :
                                      db_matches_by_hash[fingerprints[i].hash][x][1] = id}}
           ELSE {} : i \in DOMAIN fingerprints}

QTime(c) == fingerprints[c[1]].abs_anchor_tm_offset

DbTime(c) == db_matches_by_hash[fingerprints[c[1]].hash][c[2]][2]

RECURSIVE OffsetSum(_)
OffsetSum(C) ==
    IF C = {} THEN 0
    ELSE LET c == CHOOSE x \in C : TRUE
         IN  (DbTime(c) - QTime(c)) + OffsetSum(C \ {c})

\* 20 ms in samples
BinWidth == SAMPLE_RATE \div 50

\* round(x / BinWidth), halves away from zero
OffsetBin(x) ==
    IF x >= 0 THEN (2 * x + BinWidth) \div (2 * BinWidth)
    ELSE -((2 * (-x) + BinWidth) \div (2 * BinWidth))

BinCount(id, b) ==
    Cardinality({c \in Collisions(id) : OffsetBin(DbTime(c) - QTime(c)) = b})

AgreeingPairs(id) ==
    {p \in SUBSET Collisions(id) :
        /\ Cardinality(p) = 2
        /\ \E c, d \in p :
               /\ c # d
               /\ Abs(Abs(QTime(c) - QTime(d)) - Abs(DbTime(c) - DbTime(d))) < TOLERANCE}

Hop == CHUNK_SIZE - OVERLAP_SIZE

\* C10: when the file matched is frames k .. k+n-1 of an ingested song S,
\* the time_offset reported for S is within one 20 ms bin of the start of
\* such a slice, (k-1) hops into S.
C10_OffsetOfSubSlice ==
    report.op = "match_file" =>
        \A s \in songs : \A r \in DOMAIN results :
            (/\ results[r].song_id = s.id
             /\ RowsOf(fingerprint, s.id) # {}
             /\ \E k, n \in 1..MaxFrames :
                    k + n - 1 <= MaxFrames /\ report.file = Slice(s.title, k, n))
            => \E k, n \in 1..MaxFrames :
                   /\ k + n - 1 <= MaxFrames
                   /\ report.file = Slice(s.title, k, n)
                   /\ Abs(results[r].time_offset - (k - 1) * Hop) <= BinWidth

\* C11: when the file matched is the file of an ingested song S that has
\* rows in table fingerprint, the first element of the result is S (a song
\* of that file), whatever other songs the tables hold.
C11_RoundTripRanksFirst ==
    (/\ report.op = "match_file"
     /\ \E s \in songs : s.title = report.file /\ RowsOf(fingerprint, s.id) # {})
    => /\ results # <<>>
       /\ \E s \in songs : s.title = report.file /\ results[1].song_id = s.id

\* the songs of the match map with at least one collision
SongsHit ==
    {id \in UNION {{db_matches_by_hash[h][m][1] : m \in DOMAIN db_matches_by_hash[h]} :
                      h \in DOMAIN db_matches_by_hash} :
        Collisions(id) # {}}

\* C12: the result is in non-increasing order of score, has min(top_k,
\* number of songs with a collision) entries, holds no song twice, and no
\* song left out scores higher than a song returned.
C12_SortedTopK ==
    report.op = "vote" =>
        /\ Len(results) = Min(report.top_k, Cardinality(SongsHit))
        /\ \A i, j \in DOMAIN results :
               /\ i < j => results[i].score >= results[j].score
               /\ i # j => results[i].song_id # results[j].song_id
        /\ \A id \in SongsHit \ {results[k].song_id : k \in DOMAIN results} :
               \A k \in DOMAIN results :
                   Cardinality(AgreeingPairs(id)) <= results[k].score

\* C12 witness: top_k cut a song with a collision out of the result, and
\* that song scores less than the one returned.
C12_Witness ==
    /\ report.op = "vote"
    /\ Len(results) = 1
    /\ \E id \in SongsHit :
           id # results[1].song_id /\ Cardinality(AgreeingPairs(id)) < results[1].score

\* C13: two calls of vote_best_matches with the same query fingerprints, the
\* same match map and the same top_k return the same sequence of results.
C13_SameArgumentsSameResult ==
    [][(/\ report.op = "vote" /\ report'.op = "vote"
        /\ report'.top_k = report.top_k
        /\ fingerprints' = fingerprints
        /\ db_matches_by_hash' = db_matches_by_hash)
       => results' = results]_vars

\* C14: the result is empty when the query is empty and when no query hash
\* is a key of the match map, and every song in a result has a collision:
\* a query fingerprint whose hash has a row of that song in the map.
C14_OnlySongsWithCollisions ==
    report.op = "vote" =>
        /\ fingerprints = <<>> => results = <<>>
        /\ (\A i \in DOMAIN fingerprints :
                fingerprints[i].hash \notin DOMAIN db_matches_by_hash)
           => results = <<>>
        /\ \A k \in DOMAIN results :
               \E i \in DOMAIN fingerprints :
                   /\ fingerprints[i].hash \in DOMAIN db_matches_by_hash
                   /\ \E m \in DOMAIN db_matches_by_hash[fingerprints[i].hash] :
                          db_matches_by_hash[fingerprints[i].hash][m][1]
                              = results[k].song_id

\* C14 witness: a vote on a query that is not empty against a map that is
\* not empty, with no hash in common, returned the empty result.
C14_Witness ==
    /\ report.op = "vote"
    /\ fingerprints # <<>>
    /\ DOMAIN db_matches_by_hash # {}
    /\ \A i \in DOMAIN fingerprints :
           fingerprints[i].hash \notin DOMAIN db_matches_by_hash
    /\ results = <<>>

\* the entries of a peak list with a frequency of lo Hz or more and less
\* than hi Hz
PeaksWithin(peaks, lo, hi) ==
    {k \in DOMAIN peaks : 256 * lo <= peaks[k].freq /\ peaks[k].freq < 256 * hi}

\* C15: find_peaks returns at most 5 peaks in [20, 300) Hz, at most 5 in
\* [300, 2000) Hz and at most 5 in [2000, 5000) Hz, at most 15 in all.
C15_PeakBandCap ==
    report.op = "find_peaks" =>
        /\ Cardinality(PeaksWithin(final_peaks, 20, 300)) <= 5
        /\ Cardinality(PeaksWithin(final_peaks, 300, 2000)) <= 5
        /\ Cardinality(PeaksWithin(final_peaks, 2000, 5000)) <= 5
        /\ Len(final_peaks) <= 15

\* C15 witness: 15 peaks came back from a spectrum in which more than 5
\* maxima of one band were above the threshold of that band.
C15_Witness ==
    /\ report.op = "find_peaks"
    /\ Len(final_peaks) = 15
    /\ Len(ProcessBandNoCap(Band(raw_peaks(Normalize(magnitudes), CHUNK_SIZE, SAMPLE_RATE),
                                 MID_BAND_START, HIGH_BAND_START))) > 5

\* C16: every peak find_peaks returns has a frequency strictly between
\* 20 Hz and 5000 Hz and is returned for one band only: no frequency
\* comes back twice.
C16_PeakFrequencyRange ==
    report.op = "find_peaks" =>
        /\ \A k \in DOMAIN final_peaks :
               /\ 256 * 20 < final_peaks[k].freq
               /\ final_peaks[k].freq < 256 * 5000
               /\ Cardinality({b \in {<<20, 300>>, <<300, 2000>>, <<2000, 5000>>} :
                                  k \in PeaksWithin(final_peaks, b[1], b[2])}) = 1
        /\ \A k, l \in DOMAIN final_peaks :
               final_peaks[k].freq = final_peaks[l].freq => k = l

\* C16 witness: the spectrum had maxima at bins 3 (16.1 Hz) and 931
\* (5000.5 Hz), and peaks came back.
C16_Witness ==
    /\ report.op = "find_peaks"
    /\ magnitudes[3] > 0 /\ magnitudes[931] > 0
    /\ final_peaks # <<>>

IsPowerOfTwo(n) == \E k \in 0..30 : n = 2^k

\* C17: new with a CHUNK_SIZE that is not a power of two panics and builds
\* no engine, so the CHUNK_SIZE of every engine is a power of two.
C17_PowerOfTwoChunk ==
    /\ engine.built => IsPowerOfTwo(engine.CHUNK_SIZE)
    /\ (report.op = "new" /\ ~IsPowerOfTwo(report.CHUNK_SIZE))
           => (report.status = "panic" /\ ~engine.built)

\* C17 witness: new was called with CHUNK_SIZE 1500 and panicked.
C17_Witness ==
    /\ report.op = "new"
    /\ report.CHUNK_SIZE = 1500
    /\ report.status = "panic"
    /\ ~engine.built

\* C18: every engine that has been built has OVERLAP_SIZE < CHUNK_SIZE.
C18_OverlapBelowChunk ==
    engine.built => engine.OVERLAP_SIZE < engine.CHUNK_SIZE

\* p = k * hop for some k = 0, 1, 2, ..., for p >= 0
IsHopMultiple(p, hop) == IF hop > 0 THEN p % hop = 0 ELSE p = 0

\* the positions k * (CHUNK_SIZE - OVERLAP_SIZE), k = 0, 1, 2, ..., of the
\* buffer at which a whole chunk fits
FramePositions ==
    {p \in 0..buf_len :
        /\ p + engine.CHUNK_SIZE <= buf_len
        /\ IsHopMultiple(p, engine.CHUNK_SIZE - engine.OVERLAP_SIZE)}

\* C19: the frames generate_freq_time_distribution returns are one for each
\* position k * (CHUNK_SIZE - OVERLAP_SIZE) with a whole chunk in the
\* buffer; the frame of position p covers the samples [p, p + CHUNK_SIZE)
\* and has the timestamp p (in samples).
C19_OneFramePerPosition ==
    (report.op = "generate_freq_time_distribution" /\ report.status = "done") =>
        /\ Len(fft_buffer) = Cardinality(FramePositions)
        /\ Len(chunks) = Len(fft_buffer)
        /\ \A p \in FramePositions :
               \E i \in DOMAIN fft_buffer :
                   /\ fft_buffer[i].time = p
                   /\ chunks[i] = [start |-> p, end |-> p + engine.CHUNK_SIZE]

\* C19 witness: two or more frames were returned and samples were left
\* after the last chunk that fits.
C19_Witness ==
    /\ report.op = "generate_freq_time_distribution" /\ report.status = "done"
    /\ Len(fft_buffer) >= 2
    /\ chunks[Len(chunks)].end < buf_len

\* the place of the anchor peak of a push in the peak list of its frame
AnchorPlace(e) ==
    CHOOSE a \in DOMAIN fft_buffer[e.idx].peaks :
        FreqInt(fft_buffer[e.idx].peaks[a].freq) = e.anchor_freq_int

\* C20: the frames returned are in ascending position with strictly
\* increasing timestamps; the fingerprints generated from them have
\* non-decreasing anchor times, and those of one anchor frame come in the
\* order of the peaks of that frame.
C20_OutputFollowsInputOrder ==
    report.op = "generate_audio_fingerprint" =>
        /\ \A i, j \in DOMAIN fft_buffer :
               i < j => /\ chunks[i].start < chunks[j].start
                        /\ fft_buffer[i].time < fft_buffer[j].time
        /\ \A k, l \in DOMAIN fingerprints :
               k < l => /\ fingerprints[k].abs_anchor_tm_offset
                               <= fingerprints[l].abs_anchor_tm_offset
                        /\ emitted[k].idx <= emitted[l].idx
                        /\ emitted[k].idx = emitted[l].idx
                               => AnchorPlace(emitted[k]) <= AnchorPlace(emitted[l])

\* C20 witness: fingerprints of two anchor frames were generated, and of
\* two anchor peaks of one frame.
C20_Witness ==
    /\ report.op = "generate_audio_fingerprint"
    /\ \E k, l \in DOMAIN emitted : emitted[k].idx < emitted[l].idx
    /\ \E k, l \in DOMAIN emitted :
           /\ emitted[k].idx = emitted[l].idx
           /\ AnchorPlace(emitted[k]) < AnchorPlace(emitted[l])

---------------------------------------------------------------------------
(* Claims about a run of the command-line program (checked under SpecRun). *)

\* C21: when the process has ended, on whatever path, no temporary WAV file
\* of the run is left in the working directory.
C21_TempFilesUnlinkedOnExit ==
    pc.at = "exited" => files = {}

\* the errors of the claim: I/O (unreadable file, failed transcoder run,
\* failed WAV save, failed decode) and database (connection, fingerprint
\* transaction, lookup)
IoErrors == {"open", "decode", "ffmpeg", "save_wav"}
DbErrors == {"db_connect", "write_song", "transaction", "lookup"}

\* C23: a run that has met an I/O error or a database error ends with a
\* non-zero exit code.
C23_NonZeroExitOnError ==
    (pc.at = "exited" /\ report.errors \cap (IoErrors \cup DbErrors) # {}) =>
        exit_code # 0


\* C29: whatever entry point hands samples to the STFT engine, the samples
\* are at the sample rate it passes, and that rate is the one ingest_file
\* uses.
C29_OnePipelineConfiguration ==
    handed.entry # "none" =>
        /\ handed.rate = handed.sample_rate
        /\ handed.sample_rate = HandNormalized("ingest_file").sample_rate


---------------------------------------------------------------------------
(* Claims about the microphone hand-off (checked under SpecMic). *)

\* the samples of the slices delivered, converted, in the order of delivery
DeliveredSamples ==
    Concat([d \in 1..Len(delivered) |->
        [k \in 1..Len(delivered[d]) |-> ToF32(stream.format, delivered[d][k])]])

\* C22: a step that changes the capture buffer is a step of the callback
\* holding the mutex; no step changes the buffer once the stream has been
\* dropped; and what record_audio returns is the buffer's final contents,
\* every slice delivered, whole and in the order of delivery.
C22_MicrophoneHandOff ==
    [][/\ recorded_samples' # recorded_samples =>
              mutex = "callback" /\ mutex' = "callback"
       /\ stream.state = "dropped" => recorded_samples' = recorded_samples
       /\ pc'.at = "returned" =>
              /\ returned' = recorded_samples'
              /\ returned' = DeliveredSamples']_vars

\* record_audio has returned two slices, the first of them of two samples
C22_Witness ==
    /\ pc.at = "returned"
    /\ Len(delivered) = 2
    /\ Len(returned) > 2
    /\ stream.state = "dropped"


---------------------------------------------------------------------------
(* Claims about the lookup (checked under SpecFetch). *)

\* C24: the map of a lookup has a key for exactly the requested hashes that
\* have rows; under a key are the (song_id, time) of the rows with that hash,
\* each row once, however often the hash was requested; and the call leaves
\* the tables fingerprint and songs as they were.
C24_LookupReturnsExactlyTheRows ==
    [][report'.op = "fetch_matches_grouped_by_hash" =>
          LET hashes_in == report'.hashes_in
              requested == {hashes_in[i] : i \in DOMAIN hashes_in}
              m == db_matches_by_hash'
          IN  /\ DOMAIN m = {h \in requested : \E r \in fingerprint : r.hash = h}
              /\ \A h \in DOMAIN m :
                    /\ Len(m[h]) = Cardinality({r \in fingerprint : r.hash = h})
                    /\ \A r \in fingerprint :
                           r.hash = h =>
                               \E i \in DOMAIN m[h] :
                                   m[h][i] = <<r.song_id, r.absolute_time_offset>>
              /\ fingerprint' = fingerprint
              /\ songs' = songs]_vars

\* C24 witness: a hash was requested twice and its one row is there once,
\* while a row with a hash that was not requested is left out.
C24_Witness ==
    /\ report.op = "fetch_matches_grouped_by_hash"
    /\ Len(report.hashes_in) = 2
    /\ report.hashes_in[1] = report.hashes_in[2]
    /\ report.hashes_in[1] \in DOMAIN db_matches_by_hash
    /\ Len(db_matches_by_hash[report.hashes_in[1]]) = 1
    /\ \E r \in fingerprint : r.hash # report.hashes_in[1]


---------------------------------------------------------------------------
(* Claims about the complex arithmetic (checked under SpecButterfly). *)

\* C25: every product the butterfly computed is
\* (a + bi)(c + di) = (ac - bd) + i(ad + bc).
C25_ComplexProduct ==
    \A k \in DOMAIN products :
        LET a == products[k].self.re
            b == products[k].self.im
            c == products[k].rhs.re
            d == products[k].rhs.im
        IN  /\ products[k].out.re = a * c - b * d
            /\ products[k].out.im = a * d + b * c


---------------------------------------------------------------------------
(* Claims about the target zone and the quantisation (checked under SpecFp). *)

\* the (anchor frame, anchor peak, target frame, target peak) of buf, frames
\* and peaks counted from 1, with the target frame at least one and less
\* than zone frames after the anchor frame
ZonePairs(buf, zone) ==
    LET places == UNION {DOMAIN buf[i].peaks : i \in DOMAIN buf} IN
    {q \in (DOMAIN buf) \X places \X (DOMAIN buf) \X places :
        /\ q[2] \in DOMAIN buf[q[1]].peaks
        /\ q[4] \in DOMAIN buf[q[3]].peaks
        /\ q[1] + 1 <= q[3]
        /\ q[3] < q[1] + zone}

\* push e was made for the pair q
PushOf(buf, e, q) ==
    /\ e.idx = q[1]
    /\ e.anchor_freq_int = FreqInt(buf[q[1]].peaks[q[2]].freq)
    /\ e.target_freq_int = FreqInt(buf[q[3]].peaks[q[4]].freq)
    /\ e.delta_ms = DeltaMs(buf[q[3]].time - buf[q[1]].time)

\* one push for each pair of the zone, and no other push
OnePushPerPair(zone) ==
    report.op = "generate" =>
        /\ Len(emitted) = Cardinality(ZonePairs(fft_buffer, zone))
        /\ \A q \in ZonePairs(fft_buffer, zone) :
               Cardinality({k \in DOMAIN emitted : PushOf(fft_buffer, emitted[k], q)}) = 1

\* C26 as stated: one fingerprint for each anchor peak of frame i and target
\* peak of frame j with i + 1 <= j < min(i + 60, L), and no other.
C26_TargetZoneOf60 == OnePushPerPair(60)

\* C26 as the generator has it: one fingerprint for each anchor peak of
\* frame i and target peak of frame j with i + 1 <= j < min(i + 5, L), and
\* no other; the target frame is later than the anchor frame, and the last
\* frame anchors nothing.
C26_TargetZoneOf5 ==
    /\ OnePushPerPair(5)
    /\ \A k \in DOMAIN emitted : emitted[k].delta_ms > 0 /\ emitted[k].idx < Len(fft_buffer)

\* C26 witness: seven frames with a peak each; frame 1 is paired with
\* frames 2 to 5 and not with frames 6 and 7.
C26_Witness ==
    /\ report.op = "generate"
    /\ Len(fft_buffer) = 7
    /\ \A k \in DOMAIN fft_buffer : Len(fft_buffer[k].peaks) = 1
    /\ Cardinality({k \in DOMAIN emitted : emitted[k].idx = 1}) = 4


\* x / d rounded to the nearest integer, for x >= 0
RoundDiv(x, d) == (2 * x + d) \div (2 * d)

\* C27: the hash fields of every fingerprint are the anchor and the target
\* frequency divided by 50 Hz and rounded, and the time from the anchor to
\* the target frame divided by 0.1 s, rounded and saturated at 16383.
\* (A frequency is in 1/256 Hz, a time in samples.)
C27_QuantisedFields ==
    \A k \in DOMAIN emitted :
        LET e == emitted[k]
            anchor == fft_buffer[e.idx]
        IN  /\ e.delta_ms <= 16383
            /\ \E a \in DOMAIN anchor.peaks, j \in DOMAIN fft_buffer :
                   \E t \in DOMAIN fft_buffer[j].peaks :
                       /\ e.anchor_freq_int = RoundDiv(anchor.peaks[a].freq, 50 * 256)
                       /\ e.target_freq_int =
                              RoundDiv(fft_buffer[j].peaks[t].freq, 50 * 256)
                       /\ e.delta_ms =
                              Min(RoundDiv(fft_buffer[j].time - anchor.time,
                                           SAMPLE_RATE \div 10), 16383)


---------------------------------------------------------------------------
(* Claims about the selection of peaks in a band (checked under SpecPeaks). *)
(* They are stated of the spectrum itself: magnitudes holds the spectrum   *)
(* of a default engine at 11000 Hz, bin i being at i * FreqPerBin.         *)

\* the bins of the local maxima with a frequency in (20 Hz, 5000 Hz) and in
\* [lo, hi) Hz
MaximaIn(lo, hi) ==
    {i \in 1..(CHUNK_SIZE \div 2 - 2) :
        /\ magnitudes[i] > 0
        /\ magnitudes[i - 1] < magnitudes[i]
        /\ magnitudes[i + 1] < magnitudes[i]
        /\ 256 * 20 < i * FreqPerBin
        /\ i * FreqPerBin < 256 * 5000
        /\ 256 * lo <= i * FreqPerBin
        /\ i * FreqPerBin < 256 * hi}

RECURSIVE SumOfBins(_)
SumOfBins(S) ==
    IF S = {} THEN 0
    ELSE LET i == CHOOSE x \in S : TRUE IN magnitudes[i] + SumOfBins(S \ {i})

\* the maxima of M above 1.75 times the mean of M (the division by the
\* maximum of the frame scales both sides)
AboveMeanTimes175(M) ==
    LET total == SumOfBins(M) IN
    {i \in M : 4 * Cardinality(M) * magnitudes[i] > 7 * total}

\* the bins of the peaks returned for [lo, hi) Hz
KeptIn(lo, hi) ==
    {i \in 1..(CHUNK_SIZE \div 2 - 2) :
        \E k \in PeaksWithin(final_peaks, lo, hi) : final_peaks[k].freq = i * FreqPerBin}

PeakBands == {<<20, 300>>, <<300, 2000>>, <<2000, 5000>>}

\* C28: in each band the peaks returned are local maxima above 1.75 times
\* the mean of the band's maxima, min(5, their number) of them, no maximum
\* left out is above the threshold and larger than one returned, and they
\* are listed with magnitudes that do not increase.
C28_LargestAboveThreshold ==
    report.op = "find_peaks" =>
        \A b \in PeakBands :
            LET strong == AboveMeanTimes175(MaximaIn(b[1], b[2]))
                kept == KeptIn(b[1], b[2])
                listed == PeaksWithin(final_peaks, b[1], b[2])
            IN  /\ kept \subseteq strong
                /\ Cardinality(kept) = Min(5, Cardinality(strong))
                /\ Cardinality(listed) = Cardinality(kept)
                /\ \A d \in strong \ kept, k \in kept : magnitudes[d] <= magnitudes[k]
                /\ \A k, l \in listed :
                       k < l => ~MagLess(final_peaks[k].magnitude, final_peaks[l].magnitude)

\* C28 witness: a band with more than five maxima above its threshold, of
\* which five came back, and a band with fewer, which all came back.
C28_Witness ==
    /\ report.op = "find_peaks"
    /\ \E b \in PeakBands :
           /\ Cardinality(AboveMeanTimes175(MaximaIn(b[1], b[2]))) > 5
           /\ Cardinality(KeptIn(b[1], b[2])) = 5
    /\ \E b \in PeakBands :
           /\ Cardinality(MaximaIn(b[1], b[2])) > 1
           /\ Cardinality(KeptIn(b[1], b[2])) = 1


\* C30: a band whose maxima all have one magnitude, a single maximum
\* included, gives no peak; a spectrum with a single maximum gives an empty
\* peak list, and frames with that peak list give no fingerprint.
C30_EqualPeaksGiveNone ==
    report.op = "find_peaks" =>
        /\ \A b \in PeakBands :
               LET M == MaximaIn(b[1], b[2]) IN
               (\A i, j \in M : magnitudes[i] = magnitudes[j]) =>
                   PeaksWithin(final_peaks, b[1], b[2]) = {}
        /\ Cardinality(MaximaIn(20, 5000)) = 1 =>
               /\ final_peaks = <<>>
               /\ generate_audio_fingerprint(
                      [k \in 1..MaxFrames |-> FrameAt(k, final_peaks)]) = <<>>

\* C30 witness: nothing came back from a spectrum with a single maximum,
\* and nothing for a band with two maxima of one magnitude while another
\* band gave a peak.
C30_Witness ==
    /\ report.op = "find_peaks"
    /\ \/ Cardinality(MaximaIn(20, 5000)) = 1 /\ final_peaks = <<>>
       \/ /\ Cardinality(MaximaIn(20, 300)) = 2
          /\ PeaksWithin(final_peaks, 20, 300) = {}
          /\ final_peaks # <<>>

====
